---- MODULE Spec2Model ----
(***************************************************************************)
(* tf-data-client: the artifact cache (FilesystemCache, Locker) and the    *)
(* client orchestrator (Client.CreateProvider).                            *)
(*                                                                         *)
(* Strings are sequences of tokens (a token is one character or a fixed    *)
(* run of characters), paths are sequences of strings (the components),    *)
(* and the filesystem is a set of nodes [path, kind, mode, data].          *)
(***************************************************************************)
EXTENDS Integers, Sequences, FiniteSets, TLC

\* ------------------------------------------------------------------ bounds
\* number of cache calls (Put / GetOrPut) one behaviour issues
MaxCalls == 2
\* number of operating-system faults (a failing chmod, mkdir or rename)
MaxFaults == 1

\* number of Client.CreateProvider calls one behaviour issues
MaxClientCalls == 2

\* number of Configure and ReadDataSource calls one behaviour issues
MaxSessionCalls == 2

VARIABLES fs, held, call, obs, faults,
          mu, providers, latestKeys, proc, ccall, versions,
          scall, lastOp

cacheVars == <<fs, held, call, obs, faults>>
clientVars == <<mu, providers, latestKeys, proc, ccall, versions, scall, lastOp>>
sessionVars == <<scall, lastOp>>
vars == <<fs, held, call, obs, faults, mu, providers, latestKeys, proc, ccall, versions,
          scall, lastOp>>

Calls == 1..MaxCalls

ClientCalls == 1..MaxClientCalls

SessionCalls == 1..MaxSessionCalls

\* the sessions there can be: every CreateProvider call launches at most one
Sessions == 1..MaxClientCalls

\* ------------------------------------------------------------- strings
\* the tokens, in byte order of their first differing character
TokenOrder == <<"-", ".", "..", ".lock", ".locks", ".tmp", "/", "0", "1", ":",
                "@", "README", "\\", "_v1", "_v2", "base", "docs", "etc", "passwd",
                "r1", "r2", "r3", "terraform-provider-", "x", "y">>

TokRank(t) == CHOOSE i \in 1..Len(TokenOrder) : TokenOrder[i] = t

IsPrefix(p, s) == Len(p) <= Len(s) /\ SubSeq(s, 1, Len(p)) = p

IsStrictPrefix(p, s) == Len(p) < Len(s) /\ SubSeq(s, 1, Len(p)) = p

RECURSIVE StrLess(_, _)
\* byte-wise string order, as sort.Strings orders the names Glob returns
StrLess(a, b) ==
    IF a = <<>> THEN b # <<>>
    ELSE IF b = <<>> THEN FALSE
    ELSE IF Head(a) = Head(b) THEN StrLess(Tail(a), Tail(b))
    ELSE TokRank(Head(a)) < TokRank(Head(b))

\* strings.ReplaceAll(name, old, "-") for old in "/", "\\", ":"
Sanitize(s) ==
    [i \in 1..Len(s) |-> IF s[i] \in {"/", "\\", ":"} THEN "-" ELSE s[i]]

\* ------------------------------------------------------------- paths
RECURSIVE CleanFrom(_, _)
\* filepath.Clean of a rooted path: "." is dropped, ".." removes the
\* component before it (and is dropped at the root)
CleanFrom(stack, rest) ==
    IF rest = <<>> THEN stack
    ELSE IF Head(rest) = <<".">> \/ Head(rest) = <<>> THEN CleanFrom(stack, Tail(rest))
    ELSE IF Head(rest) = <<"..">> THEN
        CleanFrom(IF stack = <<>> THEN <<>> ELSE SubSeq(stack, 1, Len(stack) - 1),
                  Tail(rest))
    ELSE CleanFrom(Append(stack, Head(rest)), Tail(rest))

Clean(p) == CleanFrom(<<>>, p)

\* filepath.Join(a, b): concatenation, then Clean
Join(a, b) == Clean(a \o b)

\* filepath.Dir of a cleaned path
Dir(p) == IF p = <<>> THEN <<>> ELSE SubSeq(p, 1, Len(p) - 1)

\* ------------------------------------------------------------- identifiers
baseDir == << <<"base">> >>

\* ProviderIdentifier{"x", "y", ver, runtime.GOOS, runtime.GOARCH}
ProviderIdentifier(ver) ==
    [Namespace |-> <<"x">>, Name |-> <<"y">>, Version |-> ver,
     OS |-> <<"linux">>, Arch |-> <<"amd64">>]

V100 == <<"1", ".", "0", ".", "0">>
V110 == <<"1", ".", "1", ".", "0">>

Ids == {ProviderIdentifier(V100), ProviderIdentifier(V110)}

providerDir(id) == Join(baseDir, <<id.Namespace, id.Name, id.Version>>)

locksDir == Join(baseDir, << <<".locks">> >>)

lockPath(id) ==
    Join(locksDir,
         << Sanitize(id.Namespace \o <<"-">> \o id.Name \o <<"-">> \o id.Version
                     \o <<".lock">>) >>)

tmpBase == Join(baseDir, << <<".tmp">> >>)

\* the names crypto/rand can hand out for staging directories
Suffixes == {<<"r1">>, <<"r2">>, <<"r3">>}

\* ------------------------------------------------------------- archives
File(name, mode) == [name |-> name, isDir |-> FALSE, mode |-> mode]

DirEntry(name) == [name |-> name, isDir |-> TRUE, mode |-> "0755"]

exeV1 == << <<"terraform-provider-", "y", "_v1">> >>
exeV2 == << <<"terraform-provider-", "y", "_v2">> >>

\* the zip files a caller or a producer can hand to the cache
Archive ==
    [ A1 |-> [malformed |-> FALSE, entries |-> << File(exeV2, "0644") >>],
      A2 |-> [malformed |-> FALSE,
              entries |-> << DirEntry(<< <<"docs">> >>), File(exeV1, "0755") >>],
      A3 |-> [malformed |-> FALSE,
              entries |-> << File(exeV1, "0644"),
                             File(<< <<"..">>, <<"etc">>, <<"passwd">> >>, "0644") >>],
      A4 |-> [malformed |-> FALSE, entries |-> << File(<< <<"README">> >>, "0644") >>],
      A5 |-> [malformed |-> TRUE, entries |-> <<>>] ]

ArchiveNames == DOMAIN Archive

\* an entry of archive a escapes destination root dest
Escapes(dest, e) == ~IsStrictPrefix(Clean(dest), Join(dest, e.name))

HasEscape(a, dest) ==
    \E i \in 1..Len(Archive[a].entries) : Escapes(dest, Archive[a].entries[i])

\* ------------------------------------------------------------- filesystem
Node(p, kind, mode, data) == [path |-> p, kind |-> kind, mode |-> mode, data |-> data]

Exists(f, p) == \E n \in f : n.path = p

NodeAt(f, p) == CHOOSE n \in f : n.path = p

IsDirAt(f, p) == \E n \in f : n.path = p /\ n.kind = "dir"

\* the nodes at or below p
Under(f, p) == {n \in f : IsPrefix(p, n.path)}

Children(f, p) == {n \in f : Len(n.path) = Len(p) + 1 /\ IsPrefix(p, n.path)}

\* os.MkdirAll: every missing directory on the way to p is created;
\* fails when a component on the way is a file
MkdirAll(f, p) ==
    LET pre == {SubSeq(p, 1, k) : k \in 1..Len(p)}
    IN  IF \E q \in pre : Exists(f, q) /\ ~IsDirAt(f, q)
        THEN [err |-> TRUE, fs |-> f]
        ELSE [err |-> FALSE,
              fs |-> f \cup {Node(q, "dir", "0755", "") : q \in {r \in pre : ~Exists(f, r)}}]

\* an os.MkdirAll that fails after creating the first k directories
MkdirAllUpTo(f, p, k) == f \cup {Node(SubSeq(p, 1, j), "dir", "0755", "") :
                                  j \in {i \in 1..k : ~Exists(f, SubSeq(p, 1, i))}}

\* os.RemoveAll
RemoveAll(f, p) == f \ Under(f, p)

\* os.OpenFile(O_WRONLY|O_CREATE|O_TRUNC, mode) followed by io.Copy:
\* an existing file keeps its mode and gets the new bytes
WriteFile(f, p, mode, data) ==
    IF IsDirAt(f, p) \/ ~IsDirAt(f, Dir(p)) THEN [err |-> TRUE, fs |-> f]
    ELSE IF Exists(f, p)
         THEN [err |-> FALSE,
               fs |-> (f \ {NodeAt(f, p)}) \cup {Node(p, "file", NodeAt(f, p).mode, data)}]
         ELSE [err |-> FALSE, fs |-> f \cup {Node(p, "file", mode, data)}]

\* a chmod that changes nothing
Chmod_Nothing(f, p) == f

\* os.Chmod(p, 0755)
Chmod(f, p) == (f \ {NodeAt(f, p)}) \cup {[NodeAt(f, p) EXCEPT !.mode = "0755"]}

\* os.Rename of a directory (rename(2)): the target must be absent or an
\* empty directory
CanRename(f, src, dst) ==
    /\ IsDirAt(f, src)
    /\ IsDirAt(f, Dir(dst))
    /\ (Exists(f, dst) => IsDirAt(f, dst) /\ Children(f, dst) = {})

Rename(f, src, dst) ==
    (f \ (Under(f, src) \cup Under(f, dst)))
        \cup {[n EXCEPT !.path = dst \o SubSeq(n.path, Len(src) + 1, Len(n.path))] :
                n \in Under(f, src)}

\* ------------------------------------------------------------- cache helpers
\* filepath.Glob(dir/terraform-provider-<name>*): the children of dir whose
\* name starts with the pattern's literal part
GlobMatches(f, dir, name) ==
    {n.path : n \in {m \in Children(f, dir) :
                       IsPrefix(<<"terraform-provider-">> \o name, m.path[Len(m.path)])}}

\* findProviderExecutable: matches[0] of the sorted matches, "" when none
findProviderExecutable(f, dir, name) ==
    LET ms == GlobMatches(f, dir, name)
    IN  IF ms = {} THEN <<>>
        ELSE CHOOSE p \in ms :
                \A q \in ms : q = p \/ StrLess(p[Len(p)], q[Len(q)])

\* a Get that finds nothing
Get_Empty(f, id) == <<>>

\* FilesystemCache.Get
Get(f, id) ==
    LET execPath == findProviderExecutable(f, providerDir(id), id.Name)
    IN  IF execPath # <<>> /\ Exists(f, execPath) THEN execPath ELSE <<>>

\* FilesystemCache.Has
Has(f, id) == Get(f, id) # <<>>

IsExecutable(f, p) == p # <<>> /\ Exists(f, p) /\ NodeAt(f, p).kind = "file"
                      /\ NodeAt(f, p).mode = "0755"

\* one iteration of extractZip's loop: entry e of archive a into destDir
ExtractEntry(f, destDir, a, e) ==
    LET fpath == Join(destDir, e.name)
    IN  IF ~IsStrictPrefix(Clean(destDir), fpath) THEN [err |-> TRUE, fs |-> f]
        ELSE IF e.isDir THEN [err |-> FALSE, fs |-> MkdirAll(f, fpath).fs]
        ELSE LET m == MkdirAll(f, Dir(fpath))
             IN  IF m.err THEN [err |-> TRUE, fs |-> f]
                 ELSE WriteFile(m.fs, fpath, e.mode, a)

RECURSIVE ExtractFrom(_, _, _, _)
\* extractZip's loop from entry i on: the filesystem it leaves, and whether
\* it failed
ExtractFrom(f, destDir, a, i) ==
    IF i > Len(Archive[a].entries) THEN [err |-> FALSE, fs |-> f]
    ELSE LET x == ExtractEntry(f, destDir, a, Archive[a].entries[i])
         IN  IF x.err THEN x ELSE ExtractFrom(x.fs, destDir, a, i + 1)

\* extractZip(zipPath, destDir)
extractZip(f, destDir, a) ==
    IF Archive[a].malformed THEN [err |-> TRUE, fs |-> f]
    ELSE ExtractFrom(f, destDir, a, 1)

\* FilesystemCache.Put run from start to end with nothing in between
Put(f, id, a) ==
    LET dir == providerDir(id)
        m == MkdirAll(f, dir)
        x == extractZip(m.fs, dir, a)
        execPath == findProviderExecutable(x.fs, dir, id.Name)
    IN  IF m.err THEN [err |-> "mkdir", path |-> <<>>, fs |-> f]
        ELSE IF x.err THEN [err |-> "extract", path |-> <<>>, fs |-> x.fs]
        ELSE IF execPath = <<>> THEN [err |-> "noexec", path |-> <<>>, fs |-> x.fs]
        ELSE [err |-> "", path |-> execPath, fs |-> Chmod(x.fs, execPath)]

\* ------------------------------------------------------------- calls
AnyId == ProviderIdentifier(V100)

\* a call of Put or GetOrPut: its arguments, its position in the code, its
\* result (ret, err), and a record of what it did to the filesystem
IdleCall ==
    [op |-> "none", id |-> AnyId, pc |-> "idle", arch |-> "", idx |-> 0,
     tmp |-> <<>>, ret |-> <<>>, err |-> "",
     produced |-> FALSE, hitAtProduce |-> FALSE, hitAtStart |-> FALSE,
     touched |-> FALSE,
     mutated |-> FALSE, added |-> {}, waited |-> FALSE, residue |-> FALSE,
     getAfter |-> <<>>, execAfter |-> FALSE,
     cancelled |-> FALSE, handed |-> FALSE, deferred |-> FALSE, cleaned |-> 0]

IdleObs == [first |-> <<>>, last |-> <<>>, has |-> FALSE]

CallsInit ==
    /\ held = {}
    /\ call = [c \in Calls |-> IdleCall]
    /\ obs = [id \in Ids |-> IdleObs]
    /\ faults = 0

\* a new cache base: nothing exists yet
CacheInit ==
    /\ fs = {}
    /\ CallsInit

\* what earlier failed Put calls can have left in the cache base
Residues == {Put({}, AnyId, a).fs : a \in {"A3", "A4", "A5"}}

CacheInitResidue ==
    /\ fs \in {{}} \cup Residues
    /\ CallsInit

\* what the step of call r that turns the filesystem into nfs did
Track(r, nfs) ==
    LET d == providerDir(r.id)
    IN  [r EXCEPT
           !.touched = @ \/ Under(fs, d) # Under(nfs, d),
           !.mutated = @ \/ (r.hitAtStart /\ Under(fs, d) # Under(nfs, d)),
           !.added = @ \cup ({n.path : n \in nfs} \ {n.path : n \in fs})]

\* a return that runs no deferred call
RunDeferred_Nothing(r) == r.cleaned

\* the deferred cleanup() of GetOrPut runs as the call returns: how many
\* times the cleanup has run by then
RunDeferred(r) == IF r.deferred THEN r.cleaned + 1 ELSE r.cleaned

\* the call returns: its result, and what Get answers right after it
Return(r, nfs, path, err) ==
    [Track(r, nfs) EXCEPT
        !.cleaned = RunDeferred(r),
        !.pc = "done", !.ret = path, !.err = err, !.idx = 0, !.tmp = <<>>,
        !.residue = (r.tmp # <<>> /\ Exists(nfs, r.tmp)),
        !.getAfter = Get(nfs, r.id),
        !.execAfter = IsExecutable(nfs, Get(nfs, r.id))]

CanStart(c) == call[c].pc = "idle" /\ (IF c = 1 THEN TRUE ELSE call[c - 1].pc # "idle")

\* GetOrPut extracting in place, as Put does
ExtractTarget_Canonical(id, tmpDir) == providerDir(id)

\* the directory extractZip is pointed at by GetOrPut: the staging directory
ExtractTarget(id, tmpDir) == tmpDir

LockFree(lp) == \A h \in held : h[1] # lp

\* a lock that never refuses
TryLock_NoExclusion(lp) == TRUE

\* a lock that is never granted
TryLock_Never(lp) == FALSE

\* flock.TryLock: the lock is granted when no other descriptor holds it
TryLock(lp) == LockFree(lp)

\* an unlock that releases nothing
Unlocked_Never(c) == held

\* the deferred unlock(): the locks held once call c has released its own
Unlocked(c) == {h \in held : h[2] # c}

\* ------------------------------------------------------------- Put
StartPut(c, id, a) ==
    /\ CanStart(c)
    /\ call' = [call EXCEPT ![c] = [IdleCall EXCEPT !.op = "Put", !.id = id,
                                                     !.arch = a, !.pc = "p_mkdir",
                                                     !.hitAtStart = Has(fs, id)]]
    /\ UNCHANGED <<fs, held, obs, faults>>
    /\ UNCHANGED clientVars

\* Put: os.MkdirAll(dir, 0755)
PutMkdir(c) ==
    /\ call[c].pc = "p_mkdir"
    /\ LET m == MkdirAll(fs, providerDir(call[c].id))
       IN  IF m.err
           THEN /\ fs' = fs
                /\ call' = [call EXCEPT ![c] = Return(@, fs, <<>>, "mkdir")]
           ELSE /\ fs' = m.fs
                /\ call' = [call EXCEPT ![c] =
                              Track([@ EXCEPT !.pc = "p_extract", !.idx = 1], m.fs)]
    /\ UNCHANGED <<held, obs, faults>>
    /\ UNCHANGED clientVars

\* Put: extractZip(archivePath, dir), one archive entry per step
PutExtract(c) ==
    /\ call[c].pc = "p_extract"
    /\ LET r == call[c]
           a == Archive[r.arch]
       IN  IF a.malformed
           THEN /\ fs' = fs
                /\ call' = [call EXCEPT ![c] = Return(@, fs, <<>>, "extract")]
           ELSE LET x == ExtractEntry(fs, providerDir(r.id), r.arch, a.entries[r.idx])
                IN  IF x.err
                    THEN /\ fs' = fs
                         /\ call' = [call EXCEPT ![c] = Return(@, fs, <<>>, "extract")]
                    ELSE /\ fs' = x.fs
                         /\ call' = [call EXCEPT ![c] =
                               Track([@ EXCEPT !.idx = r.idx + 1,
                                               !.pc = IF r.idx = Len(a.entries)
                                                      THEN "p_find" ELSE "p_extract"],
                                     x.fs)]
    /\ UNCHANGED <<held, obs, faults>>
    /\ UNCHANGED clientVars

\* Put: findProviderExecutable, os.Chmod, return
PutFind(c) ==
    /\ call[c].pc = "p_find"
    /\ LET r == call[c]
           execPath == findProviderExecutable(fs, providerDir(r.id), r.id.Name)
       IN  IF execPath = <<>>
           THEN /\ fs' = fs
                /\ call' = [call EXCEPT ![c] = Return(@, fs, <<>>, "noexec")]
                /\ UNCHANGED faults
           ELSE \/ /\ fs' = Chmod(fs, execPath)
                   /\ call' = [call EXCEPT ![c] = Return(@, fs', execPath, "")]
                   /\ UNCHANGED faults
                \/ /\ faults < MaxFaults
                   /\ faults' = faults + 1
                   /\ fs' = fs
                   /\ call' = [call EXCEPT ![c] = Return(@, fs, <<>>, "chmod")]
    /\ UNCHANGED <<held, obs>>
    /\ UNCHANGED clientVars

\* ------------------------------------------------------------- GetOrPut
StartGetOrPut(c, id) ==
    /\ CanStart(c)
    /\ call' = [call EXCEPT ![c] = [IdleCall EXCEPT !.op = "GetOrPut", !.id = id,
                                                     !.pc = "g_acquire",
                                                     !.hitAtStart = Has(fs, id)]]
    /\ UNCHANGED <<fs, held, obs, faults>>
    /\ UNCHANGED clientVars

\* the filesystem after AcquireExclusive's os.MkdirAll(locksDir) and flock's
\* open(lockPath, O_CREATE)
WithLockFile(f, id) ==
    LET m == MkdirAll(f, locksDir).fs
    IN  IF Exists(m, lockPath(id)) THEN m
        ELSE m \cup {Node(lockPath(id), "file", "0600", "")}

\* Locker.AcquireExclusive, first attempt of TryLockContext
Acquire(c) ==
    /\ call[c].pc = "g_acquire"
    /\ LET r == call[c]
           nfs == WithLockFile(fs, r.id)
       IN  /\ fs' = nfs
           /\ IF TryLock(lockPath(r.id))
              THEN /\ held' = held \cup {<<lockPath(r.id), c>>}
                   /\ call' = [call EXCEPT ![c] = Track([@ EXCEPT !.pc = "g_check"], nfs)]
              ELSE /\ held' = held
                   /\ call' = [call EXCEPT ![c] =
                                 Track([@ EXCEPT !.pc = "g_wait", !.waited = TRUE], nfs)]
    /\ UNCHANGED <<obs, faults>>
    /\ UNCHANGED clientVars

\* TryLockContext's retry, 100 ms later
AcquireRetry(c) ==
    /\ call[c].pc = "g_wait"
    /\ TryLock(lockPath(call[c].id))
    /\ held' = held \cup {<<lockPath(call[c].id), c>>}
    /\ call' = [call EXCEPT ![c].pc = "g_check"]
    /\ UNCHANGED <<fs, obs, faults>>
    /\ UNCHANGED clientVars

\* the caller's context is cancelled while TryLockContext waits
AcquireCancel(c) ==
    /\ call[c].pc = "g_wait"
    /\ call' = [call EXCEPT ![c] = Return([@ EXCEPT !.cancelled = TRUE], fs, <<>>, "lock")]
    /\ UNCHANGED <<fs, held, obs, faults>>
    /\ UNCHANGED clientVars

\* GetOrPut: the re-check c.Get(ctx, id) under the lock
Check(c) ==
    /\ call[c].pc = "g_check"
    /\ LET execPath == Get(fs, call[c].id)
       IN  IF execPath # <<>>
           THEN /\ call' = [call EXCEPT ![c] = Return(@, fs, execPath, "")]
                /\ held' = Unlocked(c)
           ELSE /\ call' = [call EXCEPT ![c].pc = "g_produce"]
                /\ held' = held
    /\ UNCHANGED <<fs, obs, faults>>
    /\ UNCHANGED clientVars

\* GetOrPut: downloadFn(ctx) fails
ProduceFails(c) ==
    /\ call[c].pc = "g_produce"
    /\ call' = [call EXCEPT ![c] =
                  Return([@ EXCEPT !.produced = TRUE,
                                   !.hitAtProduce = Has(fs, call[c].id)],
                         fs, <<>>, "produce")]
    /\ held' = Unlocked(c)
    /\ UNCHANGED <<fs, obs, faults>>
    /\ UNCHANGED clientVars

\* GetOrPut: downloadFn(ctx) fails and hands back a cleanup with its error;
\* GetOrPut returns before it defers the cleanup
ProduceFailsHanding(c) ==
    /\ call[c].pc = "g_produce"
    /\ call' = [call EXCEPT ![c] =
                  Return([@ EXCEPT !.produced = TRUE, !.handed = TRUE,
                                   !.hitAtProduce = Has(fs, call[c].id)],
                         fs, <<>>, "produce")]
    /\ held' = Unlocked(c)
    /\ UNCHANGED <<fs, obs, faults>>
    /\ UNCHANGED clientVars

\* the caller's context is cancelled while the call holds the lock
CancelHeld(c) ==
    /\ call[c].pc \in {"g_check", "g_produce", "g_extract", "g_find", "g_mkparent",
                       "g_rename", "g_return"}
    /\ ~call[c].cancelled
    /\ call' = [call EXCEPT ![c].cancelled = TRUE]
    /\ UNCHANGED <<fs, held, obs, faults>>
    /\ UNCHANGED clientVars

\* a process exit that leaves the dead process's locks in place
ProcessExit_KeepsLocks(c) == held

\* the locks held once the process of call c has exited: the OS closes its
\* descriptors, which drops its flock
ProcessExit(c) == {h \in held : h[2] # c}

\* the process of call c dies while the call holds the lock: nothing on the
\* filesystem is undone, no deferred call runs
Crash(c) ==
    /\ call[c].pc \in {"g_check", "g_produce", "g_extract", "g_find", "g_mkparent",
                       "g_rename", "g_return"}
    /\ call' = [call EXCEPT ![c].pc = "crashed"]
    /\ held' = ProcessExit(c)
    /\ UNCHANGED <<fs, obs, faults>>
    /\ UNCHANGED clientVars

\* GetOrPut: downloadFn(ctx) returns archive a, then createTempDir joins
\* the drawn suffix to .tmp and calls os.MkdirAll, which also succeeds on a
\* directory that is already there
Produce(c, a, suffix) ==
    /\ call[c].pc = "g_produce"
    /\ LET tmpDir == Join(tmpBase, <<suffix>>)
       IN  /\ fs' = MkdirAll(fs, tmpDir).fs
           /\ call' = [call EXCEPT ![c] =
                         Track([@ EXCEPT !.produced = TRUE,
                                         !.handed = TRUE, !.deferred = TRUE,
                                         !.hitAtProduce = Has(fs, call[c].id),
                                         !.arch = a, !.tmp = tmpDir, !.idx = 1,
                                         !.pc = "g_extract"], fs')]
    /\ UNCHANGED <<held, obs, faults>>
    /\ UNCHANGED clientVars

\* createTempDir's hex.EncodeToString(randBytes): a name no entry of .tmp has
\* (of the fresh names, the first)
FreshSuffix(f) ==
    CHOOSE s \in Suffixes :
        /\ ~Exists(f, Join(tmpBase, <<s>>))
        /\ \A t \in Suffixes : ~Exists(f, Join(tmpBase, <<t>>)) => t = s \/ StrLess(s, t)

\* a failing exit of GetOrPut after staging began: os.RemoveAll(tmpDir),
\* then the deferred cleanup and unlock
FailStaged(c, f, err) ==
    /\ fs' = RemoveAll(f, call[c].tmp)
    /\ call' = [call EXCEPT ![c] = Return(@, fs', <<>>, err)]
    /\ held' = Unlocked(c)

\* GetOrPut: extractZip(archivePath, tmpDir), one archive entry per step
Extract(c) ==
    /\ call[c].pc = "g_extract"
    /\ LET r == call[c]
           a == Archive[r.arch]
           dest == ExtractTarget(r.id, r.tmp)
       IN  IF a.malformed
           THEN FailStaged(c, fs, "extract")
           ELSE LET x == ExtractEntry(fs, dest, r.arch, a.entries[r.idx])
                IN  IF x.err
                    THEN FailStaged(c, fs, "extract")
                    ELSE /\ fs' = x.fs
                         /\ held' = held
                         /\ call' = [call EXCEPT ![c] =
                               Track([@ EXCEPT !.idx = r.idx + 1,
                                               !.pc = IF r.idx = Len(a.entries)
                                                      THEN "g_find" ELSE "g_extract"],
                                     x.fs)]
    /\ UNCHANGED <<obs, faults>>
    /\ UNCHANGED clientVars

\* extractZip in the middle of a file entry: os.OpenFile has created (or
\* truncated) the file and io.Copy has written part of its bytes
ExtractPartial(c) ==
    /\ call[c].pc = "g_extract"
    /\ LET r == call[c]
           a == Archive[r.arch]
           dest == ExtractTarget(r.id, r.tmp)
       IN  /\ ~a.malformed
           /\ ~a.entries[r.idx].isDir
           /\ LET x == ExtractEntry(fs, dest, "partial", a.entries[r.idx])
              IN  /\ ~x.err
                  /\ fs' = x.fs
                  /\ call' = [call EXCEPT ![c] = Track(@, x.fs)]
    /\ UNCHANGED <<held, obs, faults>>
    /\ UNCHANGED clientVars

\* GetOrPut: findProviderExecutable(tmpDir) and os.Chmod
Find(c) ==
    /\ call[c].pc = "g_find"
    /\ LET r == call[c]
           execPath == findProviderExecutable(fs, ExtractTarget(r.id, r.tmp), r.id.Name)
       IN  IF execPath = <<>>
           THEN FailStaged(c, fs, "noexec") /\ UNCHANGED faults
           ELSE \/ /\ fs' = Chmod(fs, execPath)
                   /\ held' = held
                   /\ call' = [call EXCEPT ![c] = Track([@ EXCEPT !.pc = "g_mkparent"], fs')]
                   /\ UNCHANGED faults
                \/ /\ faults < MaxFaults
                   /\ faults' = faults + 1
                   /\ FailStaged(c, fs, "chmod")
    /\ UNCHANGED obs
    /\ UNCHANGED clientVars

\* GetOrPut: os.MkdirAll(filepath.Dir(finalDir), 0755)
MkParent(c) ==
    /\ call[c].pc = "g_mkparent"
    /\ LET parent == Dir(providerDir(call[c].id))
       IN  \/ /\ fs' = MkdirAll(fs, parent).fs
              /\ held' = held
              /\ call' = [call EXCEPT ![c] = Track([@ EXCEPT !.pc = "g_rename"], fs')]
              /\ UNCHANGED faults
           \/ /\ faults < MaxFaults
              /\ faults' = faults + 1
              /\ \E k \in 0..(Len(parent) - 1) :
                    FailStaged(c, MkdirAllUpTo(fs, parent, k), "mkdir")
    /\ UNCHANGED obs
    /\ UNCHANGED clientVars

\* GetOrPut: os.Rename(tmpDir, finalDir)
Publish(c) ==
    /\ call[c].pc = "g_rename"
    /\ LET r == call[c]
           finalDir == providerDir(r.id)
       IN  IF CanRename(fs, r.tmp, finalDir)
           THEN \/ /\ fs' = Rename(fs, r.tmp, finalDir)
                   /\ held' = held
                   /\ call' = [call EXCEPT ![c] = Track([@ EXCEPT !.pc = "g_return"], fs')]
                   /\ UNCHANGED faults
                \/ /\ faults < MaxFaults
                   /\ faults' = faults + 1
                   /\ FailStaged(c, fs, "rename")
           ELSE FailStaged(c, fs, "rename") /\ UNCHANGED faults
    /\ UNCHANGED obs
    /\ UNCHANGED clientVars

\* GetOrPut: return findProviderExecutable(finalDir, id.Name), nil
ReturnPublished(c) ==
    /\ call[c].pc = "g_return"
    /\ LET r == call[c]
       IN  call' = [call EXCEPT ![c] =
                      Return(@, fs, findProviderExecutable(fs, providerDir(r.id), r.id.Name), "")]
    /\ held' = Unlocked(c)
    /\ UNCHANGED <<fs, obs, faults>>
    /\ UNCHANGED clientVars

\* ------------------------------------------------------------- Get, Has
\* a caller reads Get(id)
GetCall(id) ==
    /\ LET p == Get(fs, id)
       IN  obs' = [obs EXCEPT ![id].last = p,
                              ![id].first = IF @ = <<>> THEN p ELSE @]
    /\ UNCHANGED <<fs, held, call, faults>>
    /\ UNCHANGED clientVars

\* a caller reads Has(id)
HasCall(id) ==
    /\ obs' = [obs EXCEPT ![id].has = Has(fs, id)]
    /\ UNCHANGED <<fs, held, call, faults>>
    /\ UNCHANGED clientVars

\* FilesystemCache.GetOrPut run from start to end with nothing in between;
\* a is the archive downloadFn returns, "error" when downloadFn fails, or
\* "cancelled" when the context is cancelled while another process holds the
\* lock
GetOrPut(f, id, a) ==
    LET locked == WithLockFile(f, id)
        hit == Get(locked, id)
        tmpDir == Join(tmpBase, <<FreshSuffix(locked)>>)
        staged == MkdirAll(locked, tmpDir).fs
        x == extractZip(staged, tmpDir, a)
        execPath == findProviderExecutable(x.fs, tmpDir, id.Name)
        finalDir == providerDir(id)
        ready == MkdirAll(Chmod(x.fs, execPath), Dir(finalDir)).fs
        moved == Rename(ready, tmpDir, finalDir)
        Fail(e, g) == [err |-> e, path |-> <<>>, fs |-> g, produced |-> TRUE, published |-> FALSE]
    IN  IF a = "cancelled"
        THEN [err |-> "lock", path |-> <<>>, fs |-> locked, produced |-> FALSE,
              published |-> FALSE]
        ELSE IF hit # <<>>
        THEN [err |-> "", path |-> hit, fs |-> locked, produced |-> FALSE, published |-> FALSE]
        ELSE IF a = "error" THEN Fail("produce", locked)
        ELSE IF x.err THEN Fail("extract", RemoveAll(x.fs, tmpDir))
        ELSE IF execPath = <<>> THEN Fail("noexec", RemoveAll(x.fs, tmpDir))
        ELSE IF ~CanRename(ready, tmpDir, finalDir) THEN Fail("rename", RemoveAll(ready, tmpDir))
        ELSE [err |-> "", path |-> findProviderExecutable(moved, finalDir, id.Name),
              fs |-> moved, produced |-> TRUE, published |-> TRUE]

\* ------------------------------------------------------------- registry
Digits == <<"0", "1", "2", "3", "4", "5", "6", "7", "8", "9">>

IsDigit(t) == \E i \in 1..Len(Digits) : Digits[i] = t

DigitVal(t) == (CHOOSE i \in 1..Len(Digits) : Digits[i] = t) - 1

\* the largest int (of a 32-bit build; a 64-bit build has 9223372036854775807)
MaxInt == 2147483647

RECURSIVE DecimalValue(_)
\* the value of a run of digits, MaxInt when it does not fit an int
DecimalValue(part) ==
    IF part = <<>> THEN 0
    ELSE LET hi == DecimalValue(SubSeq(part, 1, Len(part) - 1))
             d == DigitVal(part[Len(part)])
         IN  IF hi > (MaxInt - d) \div 10 THEN MaxInt ELSE 10 * hi + d

\* strconv.Atoi with its error dropped: 0 for a syntax error, the largest
\* int for a run of digits that is out of range
Atoi(part) ==
    IF part # <<>> /\ \A i \in 1..Len(part) : IsDigit(part[i])
    THEN DecimalValue(part) ELSE 0

\* strings.IndexAny(v, "-+"): 0 when there is none
IndexAny(v) ==
    IF \E i \in 1..Len(v) : v[i] \in {"-", "+"}
    THEN CHOOSE i \in 1..Len(v) :
            /\ v[i] \in {"-", "+"}
            /\ \A j \in 1..(i - 1) : v[j] \notin {"-", "+"}
    ELSE 0

RECURSIVE SplitDots(_, _)
\* strings.Split(v, "."), cur being the part read so far
SplitDots(v, cur) ==
    IF v = <<>> THEN <<cur>>
    ELSE IF Head(v) = "." THEN <<cur>> \o SplitDots(Tail(v), <<>>)
    ELSE SplitDots(Tail(v), Append(cur, Head(v)))

\* semverParts
semverParts(v) ==
    LET trimmed == IF v # <<>> /\ Head(v) = "v" THEN Tail(v) ELSE v
        core == IF IndexAny(trimmed) # 0
                THEN SubSeq(trimmed, 1, IndexAny(trimmed) - 1) ELSE trimmed
        parts == SplitDots(core, <<>>)
    IN  << IF Len(parts) >= 1 THEN Atoi(parts[1]) ELSE 0,
           IF Len(parts) >= 2 THEN Atoi(parts[2]) ELSE 0,
           IF Len(parts) >= 3 THEN Atoi(parts[3]) ELSE 0 >>

\* the less function GetLatestVersion hands to sort.Slice
VersionLess(a, b) ==
    LET x == semverParts(a)
        y == semverParts(b)
    IN  IF x[1] # y[1] THEN x[1] < y[1]
        ELSE IF x[2] # y[2] THEN x[2] < y[2]
        ELSE x[3] < y[3]

RECURSIVE InsertVersion(_, _)
\* one pass of the insertion sort sort.Slice runs on up to 12 elements: v
\* moves left while it is less than the element before it
InsertVersion(sorted, v) ==
    IF sorted = <<>> THEN <<v>>
    ELSE IF VersionLess(v, sorted[Len(sorted)])
         THEN Append(InsertVersion(SubSeq(sorted, 1, Len(sorted) - 1), v), sorted[Len(sorted)])
         ELSE Append(sorted, v)

RECURSIVE SortVersions(_)
SortVersions(vs) ==
    IF vs = <<>> THEN <<>>
    ELSE InsertVersion(SortVersions(SubSeq(vs, 1, Len(vs) - 1)), vs[Len(vs)])

\* TerraformRegistry.GetLatestVersion on the version list vs (not empty)
GetLatestVersion(vs) == SortVersions(vs)[Len(vs)]

\* longest version list of the lists tried on GetLatestVersion
MaxVersions == 2

Tenfold9 == <<"9", "9", "9", "9", "9", "9", "9", "9", "9", "9">>

\* version strings a registry may list
VersionPool ==
    { <<"0", ".", "9", ".", "1", "0">>,
      <<"0", ".", "1", "0", ".", "0">>,
      <<"1", ".", "0", ".", "0", "-", "beta">>,
      V100,
      <<"v", "1", ".", "0", ".", "1">>,
      <<"1", ".", "1">>,
      <<"beta">>,
      Tenfold9 \o <<".", "0", ".", "0">> }

\* the list of the spec's example
ExampleVersions ==
    << <<"0", ".", "9", ".", "1", "0">>, <<"0", ".", "1", "0", ".", "0">>,
       <<"1", ".", "0", ".", "0", "-", "beta">>, V100 >>

VersionLists ==
    {ExampleVersions} \cup UNION {[1..n -> VersionPool] : n \in 0..MaxVersions}

\* ------------------------------------------------------------- codec
\* a Go value of a map[string]interface{}: an absent key, nil, an int, a
\* float64 (whole numbers, written in decimal digits), a string or a
\* []interface{} of strings
GoValue(kind, digits, str, elems) ==
    [kind |-> kind, digits |-> digits, str |-> str, elems |-> elems]

Absent == GoValue("absent", <<>>, "", <<>>)

GoNil == GoValue("nil", <<>>, "", <<>>)

\* 2^53 and its neighbours: the integers at which float64 stops being exact
Pow53 == <<"9", "0", "0", "7", "1", "9", "9", "2", "5", "4", "7", "4", "0", "9", "9", "2">>

Pow53Plus1 == <<"9", "0", "0", "7", "1", "9", "9", "2", "5", "4", "7", "4", "0", "9", "9", "3">>

Pow53Plus3 == <<"9", "0", "0", "7", "1", "9", "9", "2", "5", "4", "7", "4", "0", "9", "9", "5">>

\* the whole numbers tried, all below 2^54
NumberPool == {<<"0">>, <<"4", "2">>, Pow53, Pow53Plus1, Pow53Plus3}

\* the values tried for the attributes n (number), s (string) and
\* l (list of string) of the block type
NumberValues ==
    {Absent, GoNil} \cup {GoValue("int", d, "", <<>>) : d \in NumberPool}
                    \cup {GoValue("float64", d, "", <<>>) : d \in {<<"4", "2">>, Pow53}}

StringValues == {Absent, GoNil, GoValue("string", <<>>, "", <<>>), GoValue("string", <<>>, "a", <<>>)}

ListValues ==
    {Absent, GoNil} \cup {GoValue("list", <<>>, "", e) : e \in {<<>>, <<"a">>, <<"b", "a">>}}

\* a nil map[string]interface{}
NilMap == [null |-> TRUE, n |-> Absent, s |-> Absent, l |-> Absent]

\* the mappings that conform to the block type
GoMaps ==
    {NilMap} \cup {[null |-> FALSE, n |-> n, s |-> s, l |-> l] :
                      n \in NumberValues, s \in StringValues, l \in ListValues}

\* a JSON document member: absent, null, a number literal, a string or an
\* array of strings
JSONValue(kind, digits, str, elems) ==
    [kind |-> kind, digits |-> digits, str |-> str, elems |-> elems]

\* encoding/json Marshal of one value of the map: nil gives null, ints and
\* whole float64s give their decimal digits
jsonMarshalValue(g) ==
    IF g.kind = "absent" THEN JSONValue("absent", <<>>, "", <<>>)
    ELSE IF g.kind = "nil" THEN JSONValue("null", <<>>, "", <<>>)
    ELSE IF g.kind \in {"int", "float64"} THEN JSONValue("number", g.digits, "", <<>>)
    ELSE IF g.kind = "string" THEN JSONValue("string", <<>>, g.str, <<>>)
    ELSE JSONValue("array", <<>>, "", g.elems)

\* json.Marshal(m) of a non-nil map: the object of its keys
jsonMarshal(m) == [n |-> jsonMarshalValue(m.n), s |-> jsonMarshalValue(m.s),
                   l |-> jsonMarshalValue(m.l)]

\* a cty.Value of an attribute: null of the attribute's type, or known
CtyValue(ty, null, digits, str, elems) ==
    [ty |-> ty, null |-> null, digits |-> digits, str |-> str, elems |-> elems]

\* ctyjson.Unmarshal under the attribute's type: a missing member and a
\* JSON null both give the null value of the type, a number is kept exactly
ctyjsonUnmarshalValue(j, ty) ==
    IF j.kind \in {"absent", "null"} THEN CtyValue(ty, TRUE, <<>>, "", <<>>)
    ELSE CtyValue(ty, FALSE, j.digits, j.str, j.elems)

\* cty.NullVal(ty) of the block type
NullVal == [null |-> TRUE,
            n |-> CtyValue("number", TRUE, <<>>, "", <<>>),
            s |-> CtyValue("string", TRUE, <<>>, "", <<>>),
            l |-> CtyValue("list", TRUE, <<>>, "", <<>>)]

\* ctyjson.Unmarshal(jsonBytes, ty) for the object type of the block
ctyjsonUnmarshal(j) ==
    [null |-> FALSE, n |-> ctyjsonUnmarshalValue(j.n, "number"),
     s |-> ctyjsonUnmarshalValue(j.s, "string"),
     l |-> ctyjsonUnmarshalValue(j.l, "list")]

\* mapToCtyValue(m, ty)
mapToCtyValue(m) == IF m.null THEN NullVal ELSE ctyjsonUnmarshal(jsonMarshal(m))

\* msgpack of one attribute: nil, or the value tagged with its wire format
msgpackMarshalValue(v) ==
    IF v.null THEN <<"nil">>
    ELSE IF v.ty = "number" THEN <<"int", v.digits>>
    ELSE IF v.ty = "string" THEN <<"str", v.str>>
    ELSE <<"array", v.elems>>

\* msgpack.Marshal(val, ty): nil for a null object, else the map of the
\* attributes
msgpackMarshal(val) ==
    IF val.null THEN <<"nil">>
    ELSE <<"map", msgpackMarshalValue(val.n), msgpackMarshalValue(val.s),
           msgpackMarshalValue(val.l)>>

msgpackUnmarshalValue(b, ty) ==
    IF b[1] = "nil" THEN CtyValue(ty, TRUE, <<>>, "", <<>>)
    ELSE IF ty = "number" THEN CtyValue(ty, FALSE, b[2], "", <<>>)
    ELSE IF ty = "string" THEN CtyValue(ty, FALSE, <<>>, b[2], <<>>)
    ELSE CtyValue(ty, FALSE, <<>>, "", b[2])

\* msgpack.Unmarshal(bytes, ty)
msgpackUnmarshal(b) ==
    IF b[1] = "nil" THEN NullVal
    ELSE [null |-> FALSE, n |-> msgpackUnmarshalValue(b[2], "number"),
          s |-> msgpackUnmarshalValue(b[3], "string"),
          l |-> msgpackUnmarshalValue(b[4], "list")]

\* decodeDynamicValue(dv, ty): dv is "nil" for a nil message, else the
\* bytes of its Msgpack field
decodeDynamicValue(dv) ==
    IF dv = <<>> THEN NullVal
    ELSE IF Len(dv) > 0 THEN msgpackUnmarshal(dv)
    ELSE NullVal

\* ctyjson.Marshal of an attribute: null for a null value
ctyjsonMarshalValue(v) ==
    IF v.null THEN JSONValue("null", <<>>, "", <<>>)
    ELSE IF v.ty = "number" THEN JSONValue("number", v.digits, "", <<>>)
    ELSE IF v.ty = "string" THEN JSONValue("string", <<>>, v.str, <<>>)
    ELSE JSONValue("array", <<>>, "", v.elems)

\* ctyjson.Marshal(val, val.Type()): every attribute of the type is written
ctyjsonMarshal(val) ==
    [n |-> ctyjsonMarshalValue(val.n), s |-> ctyjsonMarshalValue(val.s),
     l |-> ctyjsonMarshalValue(val.l)]

RECURSIVE Successor(_)
\* the digits of n + 1
Successor(d) ==
    IF d = <<>> THEN <<"1">>
    ELSE IF d[Len(d)] = "9" THEN Append(Successor(SubSeq(d, 1, Len(d) - 1)), "0")
    ELSE Append(SubSeq(d, 1, Len(d) - 1), Digits[DigitVal(d[Len(d)]) + 2])

\* the digits of n - 1, for n that does not end in 0
Predecessor(d) == Append(SubSeq(d, 1, Len(d) - 1), Digits[DigitVal(d[Len(d)])])

RECURSIVE DigitsLess(_, _)
\* a < b for numbers of as many digits
DigitsLess(a, b) ==
    /\ a # <<>>
    /\ \/ DigitVal(a[1]) < DigitVal(b[1])
       \/ a[1] = b[1] /\ DigitsLess(Tail(a), Tail(b))

\* the float64 nearest to whole number d < 2^54: d itself below 2^53; from
\* 2^53 on only even numbers exist, and an odd d goes to its neighbour that
\* is a multiple of 4 (round half to even)
Float64(d) ==
    IF Len(d) < Len(Pow53) \/ DigitsLess(d, Pow53) THEN d
    ELSE IF DigitVal(d[Len(d)]) % 2 = 0 THEN d
    ELSE IF (10 * DigitVal(d[Len(d) - 1]) + DigitVal(d[Len(d)])) % 4 = 1
    THEN Predecessor(d)
    ELSE Successor(d)

\* encoding/json Unmarshal into interface{}: null gives nil, a number a
\* float64, an array a []interface{}
jsonUnmarshalValue(j) ==
    IF j.kind = "null" THEN GoNil
    ELSE IF j.kind = "number" THEN GoValue("float64", Float64(j.digits), "", <<>>)
    ELSE IF j.kind = "string" THEN GoValue("string", <<>>, j.str, <<>>)
    ELSE GoValue("list", <<>>, "", j.elems)

\* json.Unmarshal(jsonBytes, &result) into a map[string]interface{}
jsonUnmarshal(j) ==
    [null |-> FALSE, n |-> jsonUnmarshalValue(j.n), s |-> jsonUnmarshalValue(j.s),
     l |-> jsonUnmarshalValue(j.l)]

\* ctyValueToMap(val)
ctyValueToMap(val) == IF val.null THEN NilMap ELSE jsonUnmarshal(ctyjsonMarshal(val))

\* the version lists the registry can be serving
RegistryLists == { <<V100, V110>>, <<V110, V100>>, <<V100>>, <<>> }

\* ------------------------------------------------------------- client
ProviderConfig(ver) == [Namespace |-> <<"x">>, Name |-> <<"y">>, Version |-> ver]

\* providerKey
providerKey(namespace, name, resolvedVersion) ==
    namespace \o <<"/">> \o name \o <<"@">> \o resolvedVersion

\* the key of c.latestKeys: cfg.Namespace + "/" + cfg.Name
latestName(cfg) == cfg.Namespace \o <<"/">> \o cfg.Name

\* a Go map as a set of entries: m[k], _, ok := m[k], m[k] = v
MapHas(m, k) == \E e \in m : e.key = k

MapGet(m, k) == (CHOOSE e \in m : e.key = k).val

MapSet(m, k, v) == {e \in m : e.key # k} \cup {[key |-> k, val |-> v]}

IdleClientCall ==
    [cfg |-> ProviderConfig(<<>>), pc |-> "idle", version |-> <<>>, key |-> <<>>,
     execPath |-> <<>>, sess |-> 0, ret |-> 0, err |-> "",
     ProviderVersion |-> 0, ClientVersion |-> 0, outcome |-> "",
     launched |-> FALSE, published |-> FALSE, concurrent |-> FALSE,
     registry |-> {}, cause |-> "", stage |-> "", cached |-> FALSE]

\* a Configure or ReadDataSource call nobody has made yet
IdleSessionCall ==
    [op |-> "none", sess |-> 0, typeName |-> "", pc |-> "idle", err |-> "",
     TypeName |-> "", Namespace |-> <<>>, Name |-> <<>>,
     sent |-> FALSE, closedBefore |-> FALSE, wrapped |-> ""]

\* what the last StopProvider, Client.Close or session Close returned
NoOp == [op |-> "none", ver |-> <<>>, err |-> "", found |-> FALSE, sess |-> 0,
         arg |-> NilMap, wire |-> <<>>, out |-> NilMap,
         again |-> FALSE]

ClientIdle ==
    /\ mu = 0
    /\ providers = {}
    /\ latestKeys = {}
    /\ proc = <<>>
    /\ ccall = [k \in ClientCalls |-> IdleClientCall]
    /\ scall = [j \in SessionCalls |-> IdleSessionCall]
    /\ lastOp = NoOp

\* New(): no sessions, an empty cache base, a registry serving some list
ClientInit ==
    /\ ClientIdle
    /\ versions \in RegistryLists

\* a mutex that excludes nobody
MuFree_NoExclusion == TRUE

\* sync.Mutex: Lock returns when nobody holds the mutex
MuFree == mu = 0

\* a CreateProvider that never records the latest alias
WithAlias_Never(cfg, key) == latestKeys

\* the latest alias a CreateProvider that found or made the session of key
\* leaves behind
WithAlias(cfg, key) ==
    IF cfg.Version = <<>> THEN MapSet(latestKeys, latestName(cfg), key) ELSE latestKeys

\* CreateProvider's c.providers[key] lookup
Existing(key) == MapHas(providers, key)

\* ------------------------------------------------------------- session
\* characters of a handshake failure message; the two literals of
\* protocolVersionRegex are one token each
PluginVersionLit == "Plugin version:"

ClientVersionsLit == "Client versions:"

\* \s of the regexp
IsSpace(t) == t \in {" ", "nl"}

RECURSIVE SkipWhile(_, _, _)
\* the first position from p on whose token is not of the class: spaces
\* (class "s") or digits (class "d"); Len(msg) + 1 when there is none
SkipWhile(msg, p, class) ==
    IF p > Len(msg) THEN p
    ELSE IF (class = "s" /\ IsSpace(msg[p])) \/ (class = "d" /\ IsDigit(msg[p]))
         THEN SkipWhile(msg, p + 1, class)
         ELSE p

\* Client versions:\s*\[(\d+)\] matches at position j
ClientPartAt(msg, j) ==
    /\ msg[j] = ClientVersionsLit
    /\ LET a == SkipWhile(msg, j + 1, "s")
           b == SkipWhile(msg, a + 1, "d")
       IN  /\ a <= Len(msg) /\ msg[a] = "["
           /\ b > a + 1
           /\ b <= Len(msg) /\ msg[b] = "]"

\* the whole pattern matches with Plugin version: at i and Client versions:
\* at j, .* covering what lies between (no newline)
MatchAt(msg, i, j) ==
    /\ msg[i] = PluginVersionLit
    /\ LET a == SkipWhile(msg, i + 1, "s")
           b == SkipWhile(msg, a, "d")
       IN  /\ b > a
           /\ b <= j
           /\ \A q \in b..(j - 1) : msg[q] # "nl"
    /\ ClientPartAt(msg, j)

\* a pattern no message matches
FindStringSubmatch_Never(msg) == <<>>

\* protocolVersionRegex.FindStringSubmatch: <<>> for no match, else the two
\* captured digit strings of the leftmost match, .* taken greedily
FindStringSubmatch(msg) ==
    LET starts == {i \in 1..Len(msg) : \E j \in (i + 1)..Len(msg) : MatchAt(msg, i, j)}
    IN  IF starts = {} THEN <<>>
        ELSE LET i == CHOOSE x \in starts : \A y \in starts : x <= y
                 ends == {j \in (i + 1)..Len(msg) : MatchAt(msg, i, j)}
                 j == CHOOSE x \in ends : \A y \in ends : x >= y
                 a == SkipWhile(msg, i + 1, "s")
                 c == SkipWhile(msg, j + 1, "s")
             IN  << SubSeq(msg, a, SkipWhile(msg, a, "d") - 1),
                    SubSeq(msg, c + 1, SkipWhile(msg, c + 1, "d") - 1) >>

\* the handshake failure messages go-plugin can hand back
HandshakeMessages ==
    [ incompatible |-> <<"incompatible API version with plugin.", " ", PluginVersionLit, " ",
                         "5", ",", " ", ClientVersionsLit, " ", "[", "6", "]">>,
      exited       |-> <<"plugin exited before we could connect">>,
      twoClients   |-> <<PluginVersionLit, " ", "5", ",", " ", ClientVersionsLit, " ",
                         "[", "5", ",", " ", "6", "]">>,
      twoDigits    |-> <<PluginVersionLit, "1", "0", " ", ClientVersionsLit, "[", "6", "]">>,
      twoLines     |-> <<PluginVersionLit, " ", "5", "nl", ClientVersionsLit, " ", "[", "6", "]">> ]

\* what can happen to a launch: it works, the handshake fails with one of
\* the messages, Dispense fails, or the dispensed client has another type
LaunchOutcomes == {"ok", "dispense", "type"} \cup DOMAIN HandshakeMessages

\* plugin.Client.Kill that leaves the child alone
Kill_Nothing(state) == state

\* plugin.Client.Kill on a child in the given state
Kill(state) == "killed"

\* launchProvider: the error it returns and the state it leaves the child in
launchProvider(outcome) ==
    LET none == [err |-> "", pluginVersion |-> 0, clientVersion |-> 0, state |-> "running"]
    IN  IF outcome = "ok" THEN none
        ELSE IF outcome \in DOMAIN HandshakeMessages
        THEN LET matches == FindStringSubmatch(HandshakeMessages[outcome])
             IN  IF matches # <<>>
                 THEN [err |-> "errProtocolMismatch", pluginVersion |-> Atoi(matches[1]),
                       clientVersion |-> Atoi(matches[2]), state |-> Kill("running")]
                 ELSE [none EXCEPT !.err = "failed to get RPC client", !.state = Kill("running")]
        ELSE IF outcome = "dispense"
        THEN [none EXCEPT !.err = "failed to dispense provider", !.state = Kill("running")]
        ELSE [none EXCEPT !.err = "unexpected provider type", !.state = Kill("running")]

NilSchema == [null |-> TRUE, DataSourceSchemas |-> {}]

\* the GetProviderSchema response of the provider: one data source, "ds"
ProviderSchema == [null |-> FALSE, DataSourceSchemas |-> {"ds"}]

\* a tfplugin6.Diagnostic
Diagnostic(severity, summary, detail) ==
    [Severity |-> severity, Summary |-> summary, Detail |-> detail]

\* checkDiagnostics that takes a diagnostic of any severity for an error
checkDiagnostics_AnySeverity(diags) ==
    IF diags = <<>> THEN ""
    ELSE Head(diags).Summary \o ": " \o Head(diags).Detail

RECURSIVE checkDiagnostics(_)
\* checkDiagnostics: the text of the error it returns, fmt.Errorf("%s: %s")
\* of the first diagnostic of severity ERROR, or "" for a nil error
checkDiagnostics(diags) ==
    IF diags = <<>> THEN ""
    ELSE IF Head(diags).Severity = "ERROR"
    THEN Head(diags).Summary \o ": " \o Head(diags).Detail
    ELSE checkDiagnostics(Tail(diags))

\* an RPC's outcome: the transport error, else the diagnostics of the response
Responses ==
    { [rpcErr |-> TRUE, diags |-> <<>>],
      [rpcErr |-> FALSE, diags |-> <<>>],
      [rpcErr |-> FALSE, diags |-> <<Diagnostic("WARNING", "deprecated", "use v2")>>],
      [rpcErr |-> FALSE, diags |-> <<Diagnostic("WARNING", "deprecated", "use v2"),
                                      Diagnostic("ERROR", "denied", "no token"),
                                      Diagnostic("ERROR", "timeout", "")>>] }

\* getSchema that caches nothing
getSchema_NoCache(p, resp) == [err |-> FALSE, cause |-> "", p |-> p]

\* provider.getSchema
getSchema(p, resp) ==
    IF resp.rpcErr
    THEN [err |-> TRUE, cause |-> "failed to get provider schema", p |-> p]
    ELSE IF checkDiagnostics(resp.diags) # ""
    THEN [err |-> TRUE,
          cause |-> "provider schema error: " \o checkDiagnostics(resp.diags), p |-> p]
    ELSE [err |-> FALSE, cause |-> "", p |-> [p EXCEPT !.schema = ProviderSchema]]

\* provider.Close that leaves the child running
providerClose_NoKill(p) == [err |-> "", p |-> p]

\* provider.Close that complains about a child that is gone
providerClose_FailsWhenDead(p) ==
    [err |-> IF p.state = "running" THEN "" ELSE "process already finished",
     p |-> [p EXCEPT !.state = Kill(p.state)]]

\* provider.Close: Kill, and no error
providerClose(p) == [err |-> "", p |-> [p EXCEPT !.state = Kill(p.state)]]

\* ------------------------------------------------------------- orchestrator
CreateProviderStart(k, ver) ==
    /\ ccall[k].pc = "idle"
    /\ IF k = 1 THEN TRUE ELSE ccall[k - 1].pc # "idle"
    /\ ccall' = [ccall EXCEPT ![k] =
            [IdleClientCall EXCEPT !.cfg = ProviderConfig(ver), !.pc = "c_lock",
                                   !.concurrent = \E o \in ClientCalls :
                                                     ccall[o].pc \notin {"idle", "done"}]]
    /\ UNCHANGED <<fs, mu, providers, latestKeys, proc, versions>>
    /\ UNCHANGED <<held, call, obs, faults, scall, lastOp>>

\* CreateProvider: c.mu.Lock()
CreateProviderLock(k) ==
    /\ ccall[k].pc = "c_lock"
    /\ MuFree
    /\ mu' = k
    /\ ccall' = [ccall EXCEPT ![k].pc = "c_resolve"]
    /\ UNCHANGED <<fs, providers, latestKeys, proc, versions>>
    /\ UNCHANGED <<held, call, obs, faults, scall, lastOp>>

\* the registry methods CreateProvider's version resolution calls:
\* GetLatestVersion, which calls GetVersions, and only for an empty version
RegistryCalls_Always(cfg) == {"GetLatestVersion", "GetVersions"}

RegistryCalls(cfg) ==
    IF cfg.Version = <<>> THEN {"GetLatestVersion", "GetVersions"} ELSE {}

\* what the registry can answer to the producer of getOrDownloadProvider:
\* 404 or another failure for the download info, a failed transfer, or an
\* archive
RegistryAnswers == {"notFound", "status", "transfer"} \cup ArchiveNames

\* the producer getOrDownloadProvider hands to GetOrPut: GetDownloadInfo,
\* os.CreateTemp, DownloadToPath
downloadFn(answer) ==
    IF answer = "notFound"
    THEN [err |-> "failed to get download info: version not found for provider",
          arch |-> "error", calls |-> {"GetDownloadInfo"}]
    ELSE IF answer = "status"
    THEN [err |-> "failed to get download info: registry returned status",
          arch |-> "error", calls |-> {"GetDownloadInfo"}]
    ELSE IF answer = "transfer"
    THEN [err |-> "failed to download provider", arch |-> "error",
          calls |-> {"GetDownloadInfo", "DownloadToPath"}]
    ELSE [err |-> "", arch |-> answer, calls |-> {"GetDownloadInfo", "DownloadToPath"}]

\* the typed error CreateProvider wraps a getOrDownloadProvider error in
ErrDownloadFailed_ByCause(cause) ==
    IF cause = "failed to get download info: version not found for provider"
    THEN "VersionNotFound" ELSE "DownloadFailed"

ErrDownloadFailed(cause) == "DownloadFailed"

\* CreateProvider: GetLatestVersion fails (the request fails, or the
\* registry lists no version)
ResolveFails(k, requestFails) ==
    /\ ccall[k].pc = "c_resolve"
    /\ ccall[k].cfg.Version = <<>>
    /\ requestFails \/ versions = <<>>
    /\ ccall' = [ccall EXCEPT ![k].pc = "done", ![k].err = "ProviderNotFound",
                              ![k].stage = "resolution",
                              ![k].registry = RegistryCalls(ccall[k].cfg)]
    /\ mu' = 0
    /\ UNCHANGED <<fs, providers, latestKeys, proc, versions>>
    /\ UNCHANGED <<held, call, obs, faults, scall, lastOp>>

\* CreateProvider: the version is resolved and the providers map consulted
Resolve(k) ==
    /\ ccall[k].pc = "c_resolve"
    /\ ccall[k].cfg.Version = <<>> => versions # <<>>
    /\ LET cfg == ccall[k].cfg
           version == IF cfg.Version = <<>> THEN GetLatestVersion(versions) ELSE cfg.Version
           key == providerKey(cfg.Namespace, cfg.Name, version)
       IN  IF Existing(key)
           THEN /\ latestKeys' = WithAlias(cfg, key)
                /\ ccall' = [ccall EXCEPT ![k].pc = "done", ![k].version = version,
                                          ![k].key = key, ![k].ret = MapGet(providers, key),
                                          ![k].registry = RegistryCalls(cfg)]
                /\ mu' = 0
           ELSE /\ latestKeys' = latestKeys
                /\ ccall' = [ccall EXCEPT ![k].pc = "c_fetch", ![k].version = version,
                                          ![k].key = key,
                                          ![k].registry = RegistryCalls(cfg)]
                /\ mu' = mu
    /\ UNCHANGED <<fs, providers, proc, versions>>
    /\ UNCHANGED <<held, call, obs, faults, scall, lastOp>>

\* CreateProvider: getOrDownloadProvider, the registry answering a to the
\* producer, or the context being cancelled during the wait for the cache
\* lock (a = "cancelled")
Fetch(k, a) ==
    /\ ccall[k].pc = "c_fetch"
    /\ LET d == downloadFn(a)
           r == GetOrPut(fs, ProviderIdentifier(ccall[k].version),
                         IF a = "cancelled" THEN a ELSE d.arch)
           called == IF r.produced THEN ccall[k].registry \cup d.calls
                     ELSE ccall[k].registry
           cause == IF r.err = "produce" THEN d.err ELSE r.err
       IN  /\ fs' = r.fs
           /\ IF r.err # ""
              THEN /\ ccall' = [ccall EXCEPT ![k].pc = "done",
                                             ![k].err = ErrDownloadFailed(cause),
                                             ![k].cause = cause, ![k].stage = "fetch",
                                             ![k].registry = called]
                   /\ mu' = 0
              ELSE /\ ccall' = [ccall EXCEPT ![k].pc = "c_launch", ![k].execPath = r.path,
                                             ![k].published = r.published,
                                             ![k].cached = ~r.produced,
                                             ![k].registry = called]
                   /\ mu' = mu
    /\ UNCHANGED <<providers, latestKeys, proc, versions>>
    /\ UNCHANGED <<held, call, obs, faults, scall, lastOp>>

\* CreateProvider: launchProvider starts the child and returns the session or
\* an error
Launch(k, outcome) ==
    /\ ccall[k].pc = "c_launch"
    /\ LET r == launchProvider(outcome)
       IN  /\ proc' = Append(proc, [key |-> ccall[k].key, path |-> ccall[k].execPath,
                                    state |-> r.state, schema |-> NilSchema,
                                    configured |-> FALSE, Namespace |-> <<>>,
                                    Name |-> <<>>, Version |-> <<>>, by |-> k,
                                    died |-> FALSE])
           /\ IF r.err = ""
              THEN /\ ccall' = [ccall EXCEPT ![k].pc = "c_schema", ![k].sess = Len(proc'),
                                             ![k].launched = TRUE, ![k].outcome = outcome]
                   /\ mu' = mu
              ELSE /\ ccall' = [ccall EXCEPT
                                  ![k].pc = "done", ![k].launched = TRUE,
                                  ![k].stage = "launch",
                                  ![k].outcome = outcome,
                                  ![k].err = IF r.err = "errProtocolMismatch"
                                             THEN "ProtocolUnsupported" ELSE "LaunchFailed",
                                  ![k].ProviderVersion = r.pluginVersion,
                                  ![k].ClientVersion = r.clientVersion]
                   /\ mu' = 0
    /\ UNCHANGED <<fs, providers, latestKeys, versions>>
    /\ UNCHANGED <<held, call, obs, faults, scall, lastOp>>

\* a CreateProvider that puts the session in the map before getSchema
Register_Early(failed, key, sess) == MapSet(providers, key, sess)

\* c.providers[key] = provider, reached only when getSchema returned nil
Register(failed, key, sess) ==
    IF failed THEN providers ELSE MapSet(providers, key, sess)

\* CreateProvider: the metadata is set, then getSchema, then the session is
\* registered and returned; on a schema failure the session is closed instead
Schema(k, resp) ==
    /\ ccall[k].pc = "c_schema"
    /\ LET r == ccall[k]
           named == [proc[r.sess] EXCEPT !.Namespace = r.cfg.Namespace,
                                         !.Name = r.cfg.Name, !.Version = r.version]
           got == getSchema(named, resp)
       IN  IF ~got.err
           THEN /\ proc' = [proc EXCEPT ![r.sess] = got.p]
                /\ providers' = Register(got.err, r.key, r.sess)
                /\ latestKeys' = WithAlias(r.cfg, r.key)
                /\ ccall' = [ccall EXCEPT ![k].pc = "done", ![k].ret = r.sess]
           ELSE /\ proc' = [proc EXCEPT ![r.sess] = providerClose(got.p).p]
                /\ providers' = Register(got.err, r.key, r.sess)
                /\ latestKeys' = latestKeys
                /\ ccall' = [ccall EXCEPT ![k].pc = "done", ![k].err = "SchemaFailed",
                                          ![k].stage = "schema", ![k].cause = got.cause]
    /\ mu' = 0
    /\ UNCHANGED <<fs, versions>>
    /\ UNCHANGED <<held, call, obs, faults, scall, lastOp>>

\* a delete that deletes nothing
MapDelete_Nothing(m, k) == m

\* delete(m, k)
MapDelete(m, k) == {e \in m : e.key # k}

\* Client.StopProvider, from c.mu.Lock() to the deferred Unlock
StopProvider(ver) ==
    /\ MuFree
    /\ LET cfg == ProviderConfig(ver)
           key == IF cfg.Version = <<>>
                  THEN IF MapHas(latestKeys, latestName(cfg))
                       THEN MapGet(latestKeys, latestName(cfg)) ELSE <<>>
                  ELSE providerKey(cfg.Namespace, cfg.Name, cfg.Version)
           done == [NoOp EXCEPT !.op = "StopProvider", !.ver = ver]
       IN  IF ~MapHas(providers, key)
           THEN /\ lastOp' = done
                /\ UNCHANGED <<proc, providers, latestKeys>>
           ELSE LET s == MapGet(providers, key)
                    closed == providerClose(proc[s])
                IN  /\ proc' = [proc EXCEPT ![s] = closed.p]
                    /\ IF closed.err # ""
                       THEN /\ lastOp' = [done EXCEPT !.err = closed.err, !.found = TRUE,
                                                       !.sess = s]
                            /\ UNCHANGED <<providers, latestKeys>>
                       ELSE /\ lastOp' = [done EXCEPT !.found = TRUE, !.sess = s,
                                                       !.again = proc[s].state = "killed"]
                            /\ providers' = MapDelete(providers, key)
                            /\ latestKeys' = IF cfg.Version = <<>>
                                             THEN MapDelete(latestKeys, latestName(cfg))
                                             ELSE latestKeys
    /\ UNCHANGED <<fs, mu, ccall, versions, scall>>
    /\ UNCHANGED <<held, call, obs, faults>>

\* the orders a range over the map m can take
Orders(m) ==
    {o \in [1..Cardinality(m) -> m] : \A i, j \in 1..Cardinality(m) : i # j => o[i] # o[j]}

\* a loop that stops after the first session
CloseLoop_FirstOnly(order, i, pr, lastErr) ==
    IF order = <<>> THEN [proc |-> pr, lastErr |-> lastErr]
    ELSE [proc |-> [pr EXCEPT ![order[1].val] = providerClose(pr[order[1].val]).p],
          lastErr |-> providerClose(pr[order[1].val]).err]

RECURSIVE CloseLoop(_, _, _, _)
\* the loop of Client.Close over c.providers from the i-th entry of order on:
\* the sessions after it and the error it leaves in lastErr
CloseLoop(order, i, pr, lastErr) ==
    IF i > Len(order) THEN [proc |-> pr, lastErr |-> lastErr]
    ELSE LET closed == providerClose(pr[order[i].val])
         IN  CloseLoop(order, i + 1, [pr EXCEPT ![order[i].val] = closed.p],
                       IF closed.err # "" THEN closed.err ELSE lastErr)

\* Client.Close, from c.mu.Lock() to the deferred Unlock
ClientClose(order) ==
    /\ MuFree
    /\ LET r == CloseLoop(order, 1, proc, "")
       IN  /\ proc' = r.proc
           /\ lastOp' = [NoOp EXCEPT !.op = "Close", !.err = r.lastErr,
                                     !.found = providers # {}]
    /\ providers' = {}
    /\ latestKeys' = {}
    /\ UNCHANGED <<fs, mu, ccall, versions, scall>>
    /\ UNCHANGED <<held, call, obs, faults>>

\* ------------------------------------------------------------- session calls
\* the session has been handed to a caller by CreateProvider
Returned(s) == \E k \in ClientCalls : ccall[k].pc = "done" /\ ccall[k].ret = s

InFlight(s) == {j \in SessionCalls : scall[j].sess = s /\ scall[j].pc = "s_rpc"}

\* the session is in a caller's hands: CreateProvider returned it, or code
\* of the package got it from launchProvider itself (by = 0)
InHand(s) == Returned(s) \/ proc[s].by = 0

\* launchProvider called on its own, outside CreateProvider: a session
\* whose schema nobody has loaded
LaunchDirect(outcome) ==
    /\ Len(proc) < MaxClientCalls
    /\ outcome = "ok"
    /\ proc' = Append(proc, [key |-> <<>>, path |-> <<>>, state |-> "running",
                             schema |-> NilSchema, configured |-> FALSE,
                             Namespace |-> <<>>, Name |-> <<>>, Version |-> <<>>,
                             by |-> 0, died |-> FALSE])
    /\ UNCHANGED <<fs, mu, providers, latestKeys, ccall, versions, scall, lastOp>>
    /\ UNCHANGED <<held, call, obs, faults>>

StartSessionCall(j, op, s) ==
    /\ scall[j].pc = "idle"
    /\ IF j = 1 THEN TRUE ELSE scall[j - 1].pc # "idle"
    /\ s \in DOMAIN proc
    /\ InHand(s)

\* a check that finds a schema on every session
SchemaLoaded_Always(p) == TRUE

\* p.schema != nil
SchemaLoaded(p) == ~p.schema.null

\* provider.Configure up to the ConfigureProvider RPC; valid: the
\* configuration converts to the provider block's type
ConfigureStart(j, s, valid) ==
    /\ StartSessionCall(j, "Configure", s)
    /\ LET c == [IdleSessionCall EXCEPT !.op = "Configure", !.sess = s]
       IN  scall' = [scall EXCEPT ![j] =
              IF ~SchemaLoaded(proc[s])
              THEN [c EXCEPT !.pc = "done", !.err = "schema not loaded"]
              ELSE IF ~valid
              THEN [c EXCEPT !.pc = "done", !.err = "failed to convert config"]
              ELSE [c EXCEPT !.pc = "s_rpc", !.sent = TRUE]]
    /\ UNCHANGED <<fs, mu, providers, latestKeys, proc, ccall, versions, lastOp>>
    /\ UNCHANGED <<held, call, obs, faults>>

\* an RPC whose return marks the session configured whatever it answered
AfterRPC_Configured(p, failed) == [p EXCEPT !.configured = TRUE]

\* a session torn down by a failed RPC
AfterRPC_TearDown(p, failed) == IF failed THEN [p EXCEPT !.state = "killed"] ELSE p

\* the session after an RPC on it has returned: a failure is handed to the
\* caller and the session is left as it is
AfterRPC(p, failed) == p

\* the child can answer only while it runs
CanAnswer(s, resp) == resp.rpcErr \/ proc[s].state = "running"

\* provider.Configure: ConfigureProvider returns and its diagnostics are checked
ConfigureReply(j, resp) ==
    /\ scall[j].pc = "s_rpc"
    /\ scall[j].op = "Configure"
    /\ CanAnswer(scall[j].sess, resp)
    /\ scall' = [scall EXCEPT ![j] =
          IF resp.rpcErr
          THEN [@ EXCEPT !.pc = "done", !.err = "failed to configure provider"]
          ELSE IF checkDiagnostics(resp.diags) # ""
          THEN [@ EXCEPT !.pc = "done", !.err = "configure provider error",
                         !.wrapped = checkDiagnostics(resp.diags)]
          ELSE [@ EXCEPT !.pc = "s_set"]]
    /\ proc' = [proc EXCEPT ![scall[j].sess] =
                   AfterRPC(@, resp.rpcErr \/ checkDiagnostics(resp.diags) # "")]
    /\ UNCHANGED <<fs, mu, providers, latestKeys, ccall, versions, lastOp>>
    /\ UNCHANGED <<held, call, obs, faults>>

\* provider.Configure: p.configured = true; return nil
ConfigureFinish(j) ==
    /\ scall[j].pc = "s_set"
    /\ proc' = [proc EXCEPT ![scall[j].sess].configured = TRUE]
    /\ scall' = [scall EXCEPT ![j].pc = "done",
                              ![j].closedBefore = proc[scall[j].sess].state = "killed"]
    /\ UNCHANGED <<fs, mu, providers, latestKeys, ccall, versions, lastOp>>
    /\ UNCHANGED <<held, call, obs, faults>>

\* a schema that knows every data source
HasDataSource_Any(schema, typeName) == TRUE

\* p.schema.DataSourceSchemas[typeName]
HasDataSource(schema, typeName) == typeName \in schema.DataSourceSchemas

\* provider.ReadDataSource up to the ReadDataSource RPC
ReadDataSourceStart(j, s, typeName, valid) ==
    /\ StartSessionCall(j, "ReadDataSource", s)
    /\ LET c == [IdleSessionCall EXCEPT !.op = "ReadDataSource", !.sess = s,
                                        !.typeName = typeName]
       IN  scall' = [scall EXCEPT ![j] =
              IF ~SchemaLoaded(proc[s])
              THEN [c EXCEPT !.pc = "done", !.err = "schema not loaded"]
              ELSE IF ~HasDataSource(proc[s].schema, typeName)
              THEN [c EXCEPT !.pc = "done", !.err = "ErrDataSourceNotFound",
                             !.TypeName = typeName, !.Namespace = proc[s].Namespace,
                             !.Name = proc[s].Name]
              ELSE IF ~valid
              THEN [c EXCEPT !.pc = "done", !.err = "failed to convert config"]
              ELSE [c EXCEPT !.pc = "s_rpc", !.sent = TRUE]]
    /\ UNCHANGED <<fs, mu, providers, latestKeys, proc, ccall, versions, lastOp>>
    /\ UNCHANGED <<held, call, obs, faults>>

\* provider.ReadDataSource: the RPC returns, its diagnostics are checked and
\* the state decoded (decodes: the state converts back)
ReadDataSourceReply(j, resp, decodes) ==
    /\ scall[j].pc = "s_rpc"
    /\ scall[j].op = "ReadDataSource"
    /\ CanAnswer(scall[j].sess, resp)
    /\ scall' = [scall EXCEPT ![j] =
          [@ EXCEPT !.pc = "done",
                    !.closedBefore = proc[scall[j].sess].state = "killed",
                    !.err = IF resp.rpcErr THEN "failed to read data source"
                            ELSE IF checkDiagnostics(resp.diags) # ""
                            THEN "read data source error"
                            ELSE IF ~decodes THEN "failed to decode state"
                            ELSE "",
                    !.wrapped = IF resp.rpcErr THEN "" ELSE checkDiagnostics(resp.diags)]]
    /\ proc' = [proc EXCEPT ![scall[j].sess] =
                   AfterRPC(@, resp.rpcErr \/ checkDiagnostics(resp.diags) # "" \/ ~decodes)]
    /\ UNCHANGED <<fs, mu, providers, latestKeys, ccall, versions, lastOp>>
    /\ UNCHANGED <<held, call, obs, faults>>

\* provider.Close called by the holder of the session
SessionClose(s) ==
    /\ s \in DOMAIN proc
    /\ Returned(s)
    /\ LET closed == providerClose(proc[s])
       IN  /\ proc' = [proc EXCEPT ![s] = closed.p]
           /\ lastOp' = [NoOp EXCEPT !.op = "provider.Close", !.err = closed.err,
                                     !.found = TRUE, !.sess = s,
                                     !.again = proc[s].state = "killed"]
    /\ UNCHANGED <<fs, mu, providers, latestKeys, ccall, versions, scall>>
    /\ UNCHANGED <<held, call, obs, faults>>

\* the child process dies on its own
ProcessExits(s) ==
    /\ s \in DOMAIN proc
    /\ proc[s].state = "running"
    /\ proc' = [proc EXCEPT ![s].state = "exited", ![s].died = TRUE]
    /\ UNCHANGED <<fs, mu, providers, latestKeys, ccall, versions, scall, lastOp>>
    /\ UNCHANGED <<held, call, obs, faults>>

CreateProviderStep(k) ==
    \/ CreateProviderLock(k)
    \/ \E requestFails \in BOOLEAN : ResolveFails(k, requestFails)
    \/ Resolve(k)
    \/ \E a \in {"status", "A1"} : Fetch(k, a)
    \/ \E outcome \in {"ok", "incompatible", "exited"} : Launch(k, outcome)
    \/ \E resp \in Responses : Schema(k, resp)

\* ------------------------------------------------------------- specification
PutStep(c) == PutMkdir(c) \/ PutExtract(c) \/ PutFind(c)

GetOrPutStep(c) ==
    \/ Acquire(c) \/ AcquireRetry(c) \/ AcquireCancel(c)
    \/ Check(c) \/ ProduceFails(c)
    \/ \E a \in ArchiveNames : Produce(c, a, FreshSuffix(fs))
    \/ Extract(c) \/ Find(c) \/ MkParent(c) \/ Publish(c) \/ ReturnPublished(c)

\* the cache on its own: no client is running
Init == CacheInit /\ ClientIdle /\ versions = <<>>

Next ==
    \/ \E c \in Calls, id \in Ids, a \in ArchiveNames : StartPut(c, id, a)
    \/ \E c \in Calls, id \in Ids : StartGetOrPut(c, id)
    \/ \E c \in Calls : PutStep(c)
    \/ \E c \in Calls : GetOrPutStep(c)
    \/ \E id \in Ids : GetCall(id)
    \/ \E id \in Ids : HasCall(id)

Spec == Init /\ [][Next]_vars

\* GetOrPut callers of one id only, in any number of processes sharing a
\* cache base that earlier calls may have used
NextGetOrPut ==
    \/ \E c \in Calls : StartGetOrPut(c, AnyId)
    \/ \E c \in Calls : GetOrPutStep(c)

InitGetOrPut == CacheInitResidue /\ ClientIdle /\ versions = <<>>

SpecGetOrPut == InitGetOrPut /\ [][NextGetOrPut]_vars

\* call c is a GetOrPut(id) that has started and not returned
Running(c, id) ==
    /\ call[c].op = "GetOrPut" /\ call[c].id = id
    /\ call[c].pc \notin {"idle", "done", "crashed"}

\* GetOrPut callers of one id on a new cache base, and callers of Get and Has
\* that take no lock and read while a GetOrPut is running
NextReaders ==
    \/ \E c \in Calls : StartGetOrPut(c, AnyId)
    \/ \E c \in Calls : Acquire(c) \/ AcquireRetry(c)
    \/ \E c \in Calls : Check(c)
    \/ \E c \in Calls, a \in {"A1", "A2", "A3"} : Produce(c, a, FreshSuffix(fs))
    \/ \E c \in Calls : ExtractPartial(c) \/ Extract(c)
    \/ \E c \in Calls : Find(c) \/ MkParent(c) \/ Publish(c) \/ ReturnPublished(c)
    \/ (\E c \in Calls : Running(c, AnyId)) /\ GetCall(AnyId)
    \/ (\E c \in Calls : Running(c, AnyId)) /\ HasCall(AnyId)

SpecReaders == Init /\ [][NextReaders]_vars

\* GetOrPut callers of two ids, createTempDir drawing any suffix that
\* rand.Read can yield
NextStaging ==
    \/ \E c \in Calls, id \in Ids : StartGetOrPut(c, id)
    \/ \E c \in Calls : Acquire(c) \/ AcquireRetry(c)
    \/ \E c \in Calls : Check(c)
    \/ \E c \in Calls, a \in {"A1", "A3"}, suffix \in Suffixes : Produce(c, a, suffix)
    \/ \E c \in Calls : Extract(c) \/ Find(c) \/ MkParent(c) \/ Publish(c)
    \/ \E c \in Calls : ReturnPublished(c)

SpecStaging == Init /\ [][NextStaging]_vars

\* GetOrPut callers of one id with every producer and with cancellation
NextExits ==
    \/ \E c \in Calls : StartGetOrPut(c, AnyId)
    \/ \E c \in Calls : Acquire(c) \/ AcquireRetry(c) \/ AcquireCancel(c)
    \/ \E c \in Calls : Check(c)
    \/ \E c \in Calls : ProduceFails(c) \/ ProduceFailsHanding(c)
    \/ \E c \in Calls, a \in {"A1", "A3", "A4"} : Produce(c, a, FreshSuffix(fs))
    \/ \E c \in Calls : Extract(c) \/ Find(c) \/ MkParent(c) \/ Publish(c)
    \/ \E c \in Calls : ReturnPublished(c)
    \/ \E c \in Calls : CancelHeld(c)

InitExits == CacheInit /\ ClientIdle /\ versions = <<>>

SpecExits == InitExits /\ [][NextExits]_vars

\* GetOrPut callers of one id, one process each, with working producers and
\* no filesystem fault; any of the processes may die while it holds the lock
Progress(c) ==
    \/ Acquire(c) \/ AcquireRetry(c) \/ Check(c)
    \/ \E a \in {"A1", "A2"} : Produce(c, a, FreshSuffix(fs))
    \/ Extract(c) \/ Find(c) \/ MkParent(c) \/ Publish(c) \/ ReturnPublished(c)

NextCrash ==
    \/ \E c \in Calls : StartGetOrPut(c, AnyId)
    \/ \E c \in Calls : Acquire(c) \/ AcquireRetry(c)
    \/ \E c \in Calls : Check(c)
    \/ \E c \in Calls, a \in {"A1", "A2"} : Produce(c, a, FreshSuffix(fs))
    \/ \E c \in Calls : Extract(c) \/ Find(c) \/ MkParent(c) \/ Publish(c)
    \/ \E c \in Calls : ReturnPublished(c)
    \/ \E c \in Calls : Crash(c)

InitCrash ==
    /\ fs = {}
    /\ held = {}
    /\ call = [c \in Calls |-> IdleCall]
    /\ obs = [id \in Ids |-> IdleObs]
    /\ faults = MaxFaults
    /\ ClientIdle
    /\ versions = <<>>

\* Progress(c) is enabled: the call is under way, and when it waits for the
\* lock, the lock is free
Runnable(c) ==
    \/ call[c].pc \in {"g_acquire", "g_check", "g_produce", "g_extract", "g_find",
                       "g_mkparent", "g_rename", "g_return"}
    \/ call[c].pc = "g_wait" /\ TryLock(lockPath(call[c].id))

\* a Progress(c) step: a step of call c that is neither its start nor its
\* process dying
Stepped(c) == Runnable(c) /\ call'[c] # call[c] /\ call'[c].pc # "crashed"

\* WF_vars(Progress(c)) with ENABLED written out as Runnable(c)
Fair(c) == []<>(~Runnable(c)) \/ []<><<Stepped(c)>>_vars

\* a process that is alive takes its next step; the 100 ms poll of
\* TryLockContext retries for as long as the caller waits
SpecCrash == InitCrash /\ [][NextCrash]_vars /\ \A c \in Calls : Fair(c)

\* one Client, its CreateProvider calls in any number of goroutines, the
\* registry's version list unchanged
NextClient ==
    \/ \E k \in ClientCalls, ver \in {<<>>, V100, V110} : CreateProviderStart(k, ver)
    \/ \E k \in ClientCalls : CreateProviderStep(k)

InitClient == CacheInit /\ ClientInit

SpecClient == InitClient /\ [][NextClient]_vars

\* CreateProvider with every way its stages can fail: the registry lists
\* 1.0.0 only
NextStages ==
    \/ \E k \in ClientCalls, ver \in {<<>>, V100} : CreateProviderStart(k, ver)
    \/ \E k \in ClientCalls : CreateProviderLock(k)
    \/ \E k \in ClientCalls : ResolveFails(k, TRUE)
    \/ \E k \in ClientCalls : Resolve(k)
    \/ \E k \in ClientCalls, a \in {"cancelled"} \cup RegistryAnswers : Fetch(k, a)
    \/ \E k \in ClientCalls, outcome \in {"ok", "incompatible", "exited"} :
          Launch(k, outcome)
    \/ \E k \in ClientCalls, resp \in Responses : Schema(k, resp)

InitStages == CacheInit /\ ClientIdle /\ versions = <<V100>>

SpecStages == InitStages /\ [][NextStages]_vars

\* CreateProvider calls for two versions of one provider, each stage of
\* which can fail, next to sessions that earlier calls registered
NextFrame ==
    \/ \E k \in ClientCalls, ver \in {<<>>, V100} : CreateProviderStart(k, ver)
    \/ \E k \in ClientCalls : CreateProviderLock(k)
    \/ \E k \in ClientCalls : ResolveFails(k, TRUE)
    \/ \E k \in ClientCalls : Resolve(k)
    \/ \E k \in ClientCalls, a \in {"status", "A1"} : Fetch(k, a)
    \/ \E k \in ClientCalls, outcome \in {"ok", "incompatible", "exited"} :
          Launch(k, outcome)
    \/ \E k \in ClientCalls, resp \in Responses : Schema(k, resp)

InitFrame == CacheInit /\ ClientIdle /\ versions = <<V100, V110>>

SpecFrame == InitFrame /\ [][NextFrame]_vars

\* CreateProvider at getOrDownloadProvider while the file lock of its id can
\* be had: GetOrPut's AcquireExclusive polls until then, the call holding
\* the Client mutex meanwhile
FetchWhenFree(k, a) ==
    /\ ccall[k].pc = "c_fetch"
    /\ TryLock(lockPath(ProviderIdentifier(ccall[k].version)))
    /\ Fetch(k, a)

\* CreateProvider call k has a step it can take
RunnableCreate(k) ==
    \/ ccall[k].pc = "c_lock" /\ MuFree
    \/ ccall[k].pc \in {"c_resolve", "c_launch", "c_schema"}
    \/ ccall[k].pc = "c_fetch"
          /\ TryLock(lockPath(ProviderIdentifier(ccall[k].version)))

SteppedCreate(k) == RunnableCreate(k) /\ ccall'[k] # ccall[k]

\* a goroutine that can run does: the producer, the launch and the schema
\* RPC of a CreateProvider return
FairCreate(k) == []<>(~RunnableCreate(k)) \/ []<><<SteppedCreate(k)>>_vars

\* one Client, with CreateProvider, StopProvider, Close and session Close
\* called from any number of goroutines, and a GetOrPut caller of the same
\* id in another process that shares the cache base
NextLocks ==
    \/ \E k \in ClientCalls : CreateProviderStart(k, <<>>)
    \/ \E k \in ClientCalls : CreateProviderLock(k)
    \/ \E k \in ClientCalls : Resolve(k)
    \/ \E k \in ClientCalls : FetchWhenFree(k, "A1")
    \/ \E k \in ClientCalls : Launch(k, "ok")
    \/ \E k \in ClientCalls, resp \in {r \in Responses : r.diags = <<>>} : Schema(k, resp)
    \/ StopProvider(<<>>)
    \/ \E order \in Orders(providers) : ClientClose(order)
    \/ \E s \in Sessions : SessionClose(s)
    \/ StartGetOrPut(1, AnyId)
    \/ Acquire(1) \/ Check(1)
    \/ Produce(1, "A1", FreshSuffix(fs))
    \/ Extract(1) \/ Find(1) \/ MkParent(1) \/ Publish(1)
    \/ ReturnPublished(1)

\* no filesystem fault is injected; the registry lists 1.0.0
InitLocks ==
    /\ fs = {}
    /\ held = {}
    /\ call = [c \in Calls |-> IdleCall]
    /\ obs = [id \in Ids |-> IdleObs]
    /\ faults = MaxFaults
    /\ ClientIdle
    /\ versions = <<V100>>

SpecLocks ==
    /\ InitLocks /\ [][NextLocks]_vars
    /\ \A c \in Calls : Fair(c)
    /\ \A k \in ClientCalls : FairCreate(k)

\* one provider version whose session is created, configured, stopped or
\* closed, and created again
NextRestart ==
    \/ \E k \in ClientCalls : CreateProviderStart(k, <<>>)
    \/ \E k \in ClientCalls : CreateProviderLock(k)
    \/ \E k \in ClientCalls : Resolve(k)
    \/ \E k \in ClientCalls : Fetch(k, "A1")
    \/ \E k \in ClientCalls : Launch(k, "ok")
    \/ \E k \in ClientCalls : Schema(k, [rpcErr |-> FALSE, diags |-> <<>>])
    \/ \E ver \in {<<>>, V100} : StopProvider(ver)
    \/ \E order \in Orders(providers) : ClientClose(order)
    \/ \E s \in Sessions : ConfigureStart(1, s, TRUE)
    \/ ConfigureReply(1, [rpcErr |-> FALSE, diags |-> <<>>])
    \/ ConfigureFinish(1)

SpecRestart == InitStages /\ [][NextRestart]_vars

\* a mapping is encoded as Configure and ReadDataSource encode their config
\* (mapToCtyValue, msgpack.Marshal) and the bytes are decoded as
\* ReadDataSource decodes a state (decodeDynamicValue, ctyValueToMap)
RoundTrip(m) ==
    /\ LET wire == msgpackMarshal(mapToCtyValue(m))
       IN  lastOp' = [NoOp EXCEPT !.op = "roundTrip", !.arg = m, !.wire = wire,
                                  !.out = ctyValueToMap(decodeDynamicValue(wire))]
    /\ UNCHANGED <<fs, mu, providers, latestKeys, proc, ccall, versions, scall>>
    /\ UNCHANGED <<held, call, obs, faults>>

NextCodec == \E m \in GoMaps : RoundTrip(m)

InitCodec == CacheInit /\ ClientIdle /\ versions = <<>>

SpecCodec == InitCodec /\ [][NextCodec]_vars

\* TerraformRegistry.GetLatestVersion, GetVersions having returned the list
\* in versions
GetLatestVersionCall ==
    /\ lastOp' = IF Len(versions) = 0
                 THEN [NoOp EXCEPT !.op = "GetLatestVersion", !.err = "no versions found"]
                 ELSE [NoOp EXCEPT !.op = "GetLatestVersion",
                                   !.ver = GetLatestVersion(versions)]
    /\ UNCHANGED <<fs, mu, providers, latestKeys, proc, ccall, versions, scall>>
    /\ UNCHANGED <<held, call, obs, faults>>

\* GetLatestVersion on its own, over the version lists
NextVersions == GetLatestVersionCall

InitVersions == CacheInit /\ ClientIdle /\ versions \in VersionLists

SpecVersions == InitVersions /\ [][NextVersions]_vars

\* CreateProvider calls whose launches end in every way launchProvider can
NextLaunch ==
    \/ \E k \in ClientCalls, ver \in {<<>>, V100} : CreateProviderStart(k, ver)
    \/ \E k \in ClientCalls : CreateProviderLock(k)
    \/ \E k \in ClientCalls : Resolve(k)
    \/ \E k \in ClientCalls : Fetch(k, "A1")
    \/ \E k \in ClientCalls, outcome \in LaunchOutcomes : Launch(k, outcome)
    \/ \E k \in ClientCalls, resp \in Responses : Schema(k, resp)

InitLaunch == CacheInit /\ ClientIdle /\ versions = <<V100, V110>>

SpecLaunch == InitLaunch /\ [][NextLaunch]_vars

\* one Client whose sessions are created, stopped and closed by any number
\* of goroutines
NextLifecycle ==
    \/ \E k \in ClientCalls, ver \in {<<>>, V100} : CreateProviderStart(k, ver)
    \/ \E k \in ClientCalls : CreateProviderLock(k)
    \/ \E k \in ClientCalls : Resolve(k)
    \/ \E k \in ClientCalls : Fetch(k, "A1")
    \/ \E k \in ClientCalls, outcome \in {"ok", "exited"} : Launch(k, outcome)
    \/ \E k \in ClientCalls, resp \in Responses : Schema(k, resp)
    \/ \E ver \in {<<>>, V100, V110} : StopProvider(ver)
    \/ \E order \in Orders(providers) : ClientClose(order)

InitLifecycle == CacheInit /\ ClientIdle /\ versions = <<V100, V110>>

SpecLifecycle == InitLifecycle /\ [][NextLifecycle]_vars

\* one session, made by one CreateProvider call, used and closed by any
\* number of goroutines while the Client stops it or closes
NextSession ==
    \/ CreateProviderStart(1, <<>>)
    \/ CreateProviderLock(1)
    \/ Resolve(1)
    \/ Fetch(1, "A1")
    \/ Launch(1, "ok")
    \/ \E resp \in Responses : Schema(1, resp)
    \/ \E ver \in {<<>>, V110} : StopProvider(ver)
    \/ \E order \in Orders(providers) : ClientClose(order)
    \/ \E j \in SessionCalls, s \in Sessions, valid \in BOOLEAN : ConfigureStart(j, s, valid)
    \/ \E j \in SessionCalls, resp \in Responses : ConfigureReply(j, resp)
    \/ \E j \in SessionCalls : ConfigureFinish(j)
    \/ \E j \in SessionCalls, s \in Sessions, typeName \in {"ds", "nope"}, valid \in BOOLEAN :
          ReadDataSourceStart(j, s, typeName, valid)
    \/ \E j \in SessionCalls, resp \in Responses, decodes \in BOOLEAN :
          ReadDataSourceReply(j, resp, decodes)
    \/ \E s \in Sessions : SessionClose(s)
    \/ \E s \in Sessions : ProcessExits(s)

SpecSession == InitLifecycle /\ [][NextSession]_vars

\* sessions with and without a loaded schema in the hands of callers: one
\* made by CreateProvider, others taken from launchProvider directly
NextUnloaded ==
    \/ CreateProviderStart(1, <<>>)
    \/ CreateProviderLock(1)
    \/ Resolve(1)
    \/ Fetch(1, "A1")
    \/ Launch(1, "ok")
    \/ \E resp \in Responses : Schema(1, resp)
    \/ LaunchDirect("ok")
    \/ \E j \in SessionCalls, s \in Sessions, valid \in BOOLEAN : ConfigureStart(j, s, valid)
    \/ \E j \in SessionCalls, resp \in Responses : ConfigureReply(j, resp)
    \/ \E j \in SessionCalls : ConfigureFinish(j)
    \/ \E j \in SessionCalls, s \in Sessions, typeName \in {"ds", "nope"}, valid \in BOOLEAN :
          ReadDataSourceStart(j, s, typeName, valid)
    \/ \E j \in SessionCalls, resp \in Responses, decodes \in BOOLEAN :
          ReadDataSourceReply(j, resp, decodes)

SpecUnloaded == InitLifecycle /\ [][NextUnloaded]_vars


\* ------------------------------------------------------------- claims
Done(c) == call[c].pc = "done"

Ok(c) == Done(c) /\ call[c].err = ""

Failed(c) == Done(c) /\ call[c].err # ""

GetOrPutCalls == {c \in Calls : call[c].op = "GetOrPut"}

PutCalls == {c \in Calls : call[c].op = "Put"}

\* the call holds the lock of its id and has not returned
InCritical(c) ==
    call[c].pc \in {"g_check", "g_produce", "g_extract", "g_find", "g_mkparent",
                    "g_rename", "g_return"}

\* C1: for concurrent GetOrPut calls on one id, at most one successful call
\* invoked produce, produce is never invoked while the id is cached or while
\* another call is between the re-check and its return, and all successful
\* calls return the same non-empty path.
C1_CacheAtomicity ==
    \A id \in Ids :
        LET G == {c \in GetOrPutCalls : call[c].id = id}
        IN  /\ Cardinality({c \in G : Ok(c) /\ call[c].produced}) <= 1
            /\ \A c \in G : call[c].produced => ~call[c].hitAtProduce
            /\ Cardinality({c \in G : InCritical(c)}) <= 1
            /\ \A c1, c2 \in G :
                  Ok(c1) /\ Ok(c2) => call[c1].ret = call[c2].ret /\ call[c1].ret # <<>>

\* a caller that waited for the lock returned the path another caller published
C1_Witness ==
    \E c1, c2 \in GetOrPutCalls :
        /\ c1 # c2 /\ call[c1].id = call[c2].id
        /\ Ok(c1) /\ call[c1].produced
        /\ Ok(c2) /\ call[c2].waited /\ ~call[c2].produced
        /\ call[c1].ret = call[c2].ret

\* the paths under the cache base and outside .tmp/ that call c created
AddedOutsideTmp(c) ==
    {p \in call[c].added : IsStrictPrefix(baseDir, p) /\ ~IsPrefix(tmpBase, p)}

\* C3 as stated: a failing GetOrPut leaves the canonical directory as it was
\* and nothing new under the cache base outside .tmp/.
C3_NoResidueOutsideTmp ==
    \A c \in GetOrPutCalls :
        Failed(c) => ~call[c].touched /\ AddedOutsideTmp(c) = {}

\* the lock directory, the lock file, and the directories above the
\* canonical directory
LockAndAncestors(id) ==
    {locksDir, lockPath(id)}
        \cup {SubSeq(providerDir(id), 1, k) : k \in 1..(Len(providerDir(id)) - 1)}

\* C3, amended: a failing GetOrPut leaves the canonical directory as it was;
\* outside .tmp/ it adds nothing under the cache base but .locks/, the lock
\* file of the id, and directories above the canonical directory.
C3_NoPartialPublication ==
    \A c \in GetOrPutCalls :
        Failed(c) => /\ ~call[c].touched
                     /\ AddedOutsideTmp(c) \subseteq LockAndAncestors(call[c].id)

\* a GetOrPut that staged an archive and then failed to publish it
C3_Witness ==
    \E c \in GetOrPutCalls :
        /\ Failed(c) /\ call[c].err = "rename"
        /\ lockPath(call[c].id) \in call[c].added
        /\ ~call[c].residue

\* the call is inside extractZip with the canonical directory of id as
\* its destination
ExtractingInto(c, id) ==
    /\ call[c].id = id
    /\ \/ call[c].pc = "p_extract"
       \/ call[c].pc = "g_extract" /\ ExtractTarget(id, call[c].tmp) = providerDir(id)

\* C4: at most one call at a time is extracting into the canonical directory
\* of an id, for any mix of Put and GetOrPut calls.
C4_OneExtractorPerId ==
    \A id \in Ids : Cardinality({c \in Calls : ExtractingInto(c, id)}) <= 1

\* C5: when Put or GetOrPut returns success, Get(id) answers the returned
\* path, and that path is an existing file with execute permission.
C5_CachePostCondition ==
    \A c \in Calls :
        Ok(c) => /\ call[c].getAfter # <<>>
                 /\ call[c].getAfter = call[c].ret
                 /\ call[c].execAfter

\* the destination root call c extracted (or would extract) into
DestRoot(c) ==
    IF call[c].op = "Put" THEN providerDir(call[c].id) ELSE tmpBase \o << <<"r1">> >>

\* C6: a call given an archive with an escaping entry fails, writes nothing
\* outside the cache base, creates nothing in the canonical directory of
\* the id (nor the directory itself), and leaves no staging directory.
C6_ZipSlipPublishesNothing ==
    \A c \in Calls :
        (Done(c) /\ call[c].arch # "" /\ HasEscape(call[c].arch, DestRoot(c)))
            => /\ Failed(c)
               /\ \A p \in call[c].added : IsPrefix(baseDir, p)
               /\ \A p \in call[c].added : ~IsPrefix(providerDir(call[c].id), p)
               /\ ~call[c].residue

\* C7: a failing Put or GetOrPut leaves the canonical directory of its id
\* as it was (absent, or with the contents it had).
C7_FailureLeavesCanonical ==
    \A c \in Calls : Failed(c) => ~call[c].touched

\* C8: once Get(id) has answered a path, every later Get(id) answers it.
C8_GetIsStable ==
    \A id \in Ids : obs[id].first # <<>> => obs[id].last = obs[id].first

\* C9: no Put or GetOrPut that starts when Get(id) is non-empty changes
\* anything in the canonical directory of id.
C9_EntryNeverMutated ==
    \A c \in Calls : ~call[c].mutated

\* ------------------------------------------------------------- client claims
ClientOk(k) == ccall[k].pc = "done" /\ ccall[k].err = ""

ResolvedKeys == {ccall[k].key : k \in ClientCalls} \ {<<>>}

OkFor(key) == {k \in ClientCalls : ClientOk(k) /\ ccall[k].key = key}

RunningFor(key) == {i \in DOMAIN proc : proc[i].key = key /\ proc[i].state = "running"}

\* C2: for one resolved key, the CreateProvider calls that succeed all return
\* the same session, exactly one of them launched the subprocess, the archive
\* was published into the cache at most once, and never are two subprocesses
\* of the key running or two sessions registered under it
C2_SessionUniqueness ==
    \A key \in ResolvedKeys :
        /\ \A k1, k2 \in OkFor(key) : ccall[k1].ret = ccall[k2].ret
        /\ OkFor(key) # {} =>
              /\ Cardinality({k \in OkFor(key) : ccall[k].launched}) = 1
              /\ Cardinality(RunningFor(key)) = 1
        /\ Cardinality({k \in ClientCalls : ccall[k].key = key /\ ccall[k].published}) <= 1
        /\ Cardinality(RunningFor(key)) <= 1
        /\ Cardinality({e \in providers : e.key = key}) <= 1

\* C2: two overlapping calls for one key both succeeded
C2_Witness ==
    /\ ClientOk(1) /\ ClientOk(2)
    /\ ccall[1].key = ccall[2].key
    /\ ccall[2].concurrent
    /\ ccall[1].cfg.Version # ccall[2].cfg.Version

LatestCalls == {k \in ClientCalls : ClientOk(k) /\ ccall[k].cfg.Version = <<>>}

\* C10: the registry's list being fixed, the CreateProvider calls with an
\* empty version that succeed return one session, at most one of them
\* launched a subprocess, and the latest alias of namespace/name is the
\* resolved key of that session
C10_VersionResolutionIdempotence ==
    /\ \A k1, k2 \in LatestCalls :
          /\ ccall[k1].ret = ccall[k2].ret
          /\ k1 # k2 => ~(ccall[k1].launched /\ ccall[k2].launched)
    /\ \A k \in LatestCalls :
          /\ MapHas(latestKeys, latestName(ccall[k].cfg))
          /\ MapGet(latestKeys, latestName(ccall[k].cfg)) = proc[ccall[k].ret].key
          /\ proc[ccall[k].ret].key =
                providerKey(ccall[k].cfg.Namespace, ccall[k].cfg.Name,
                            GetLatestVersion(versions))

\* C10: two calls with an empty version succeeded, the second on the session
\* the first launched
C10_Witness ==
    /\ LatestCalls = {1, 2}
    /\ ccall[1].launched /\ ~ccall[2].launched
    /\ Len(versions) = 2

\* ------------------------------------------------------------- session claims
Registered == {e.val : e \in providers}

\* C11: every session in the providers map and every session a successful
\* CreateProvider returned has a schema that is not null
C11_SchemaLoaded ==
    /\ \A s \in Registered : ~proc[s].schema.null
    /\ \A k \in ClientCalls : ClientOk(k) => ~proc[ccall[k].ret].schema.null

\* C11: a session is registered, one call launched it and another call was
\* handed the same session from the map
C11_Witness ==
    /\ Registered # {}
    /\ \E k1, k2 \in ClientCalls :
          /\ ClientOk(k1) /\ ClientOk(k2)
          /\ ccall[k1].launched /\ ~ccall[k2].launched

StartedBy(k) == {i \in DOMAIN proc : proc[i].by = k}

LaunchErrors == {"LaunchFailed", "ProtocolUnsupported"}

\* C12: whenever launchProvider returns an error (the handshake failed, with
\* or without a protocol mismatch, Dispense failed, the client has another
\* type) CreateProvider fails with LaunchFailed or ProtocolUnsupported and the
\* child it started has been killed
C12_LaunchFailureKillsChild ==
    \A k \in ClientCalls :
       ccall[k].pc = "done" /\ ccall[k].outcome \notin {"", "ok"} =>
          /\ ccall[k].err \in LaunchErrors
          /\ StartedBy(k) # {}
          /\ \A i \in StartedBy(k) : proc[i].state = "killed"

\* C12: one call failed on a protocol mismatch and another on Dispense
C12_Witness ==
    \E k1, k2 \in ClientCalls :
       /\ ccall[k1].pc = "done" /\ ccall[k1].err = "ProtocolUnsupported"
       /\ ccall[k2].pc = "done" /\ ccall[k2].err = "LaunchFailed"
       /\ ccall[k2].outcome = "dispense"

SchemaFailedCalls == {k \in ClientCalls : ccall[k].pc = "done" /\ ccall[k].err = "SchemaFailed"}

\* C13: a CreateProvider whose schema fetch fails has killed the child it
\* launched when it returns SchemaFailed, its session is never in the
\* providers map, and the failing step changes neither the providers map nor
\* the latest alias
C13_SchemaFailureTearsDown ==
    /\ [](\A k \in SchemaFailedCalls :
             /\ proc[ccall[k].sess].state = "killed"
             /\ ccall[k].sess \notin Registered)
    /\ [][\A k \in ClientCalls :
             ccall[k].pc = "c_schema" /\ ccall'[k].err = "SchemaFailed" =>
                /\ proc[ccall[k].sess].state = "running"
                /\ proc'[ccall[k].sess].state = "killed"
                /\ providers' = providers
                /\ latestKeys' = latestKeys]_vars

\* C13: a call with an empty version failed on an error diagnostic of the
\* schema and no alias exists
C13_Witness ==
    \E k \in SchemaFailedCalls :
       /\ ccall[k].cfg.Version = <<>>
       /\ proc[ccall[k].sess].state = "killed"
       /\ latestKeys = {}

\* what each handshake failure message must give: the two integers of a
\* message that matches the pattern, <<>> for one that does not
ExpectedMismatch ==
    [ incompatible |-> <<5, 6>>,
      exited       |-> <<>>,
      twoClients   |-> <<>>,
      twoDigits    |-> <<10, 6>>,
      twoLines     |-> <<>> ]

\* C14: a handshake failure whose message matches the pattern ends
\* CreateProvider with ProtocolUnsupported carrying the two captured integers
\* (5 and 6 for "Plugin version: 5, Client versions: [6]"); any other launch
\* failure ends it with LaunchFailed
C14_ProtocolDisambiguation ==
    \A k \in ClientCalls :
       ccall[k].pc = "done" /\ ccall[k].outcome \notin {"", "ok"} =>
          IF ccall[k].outcome \in DOMAIN ExpectedMismatch
             /\ ExpectedMismatch[ccall[k].outcome] # <<>>
          THEN /\ ccall[k].err = "ProtocolUnsupported"
               /\ <<ccall[k].ProviderVersion, ccall[k].ClientVersion>> =
                     ExpectedMismatch[ccall[k].outcome]
          ELSE ccall[k].err = "LaunchFailed"

\* C14: one call met "Plugin version: 5, Client versions: [6]" and another a
\* message with two client versions
C14_Witness ==
    \E k1, k2 \in ClientCalls :
       /\ ccall[k1].pc = "done" /\ ccall[k1].outcome = "incompatible"
       /\ ccall[k1].ProviderVersion = 5 /\ ccall[k1].ClientVersion = 6
       /\ ccall[k2].pc = "done" /\ ccall[k2].outcome = "twoClients"

\* the key a StopProvider of version ver resolves to: the key of the
\* explicit version, or the recorded latest alias (<<>> when there is none)
StopKey(ver) ==
    IF ver # <<>> THEN providerKey(<<"x">>, <<"y">>, ver)
    ELSE IF \E e \in latestKeys : e.key = <<"x", "/", "y">>
         THEN (CHOOSE e \in latestKeys : e.key = <<"x", "/", "y">>).val
         ELSE <<>>

\* C15: a StopProvider whose ref resolves to a registered session kills that
\* session's child and takes it out of the providers map; one whose ref
\* resolves to none returns nil and changes nothing; in both cases every
\* other session stays registered and as it was
C15_StopProviderFrame ==
    [][\A ver \in {<<>>, V100, V110} :
          StopProvider(ver) =>
             /\ lastOp'.err = ""
             /\ IF \E e \in providers : e.key = StopKey(ver)
                THEN \A e \in providers :
                        e.key = StopKey(ver) =>
                           /\ proc'[e.val].state = "killed"
                           /\ \A f \in providers' : f.key # e.key
                ELSE UNCHANGED <<providers, latestKeys, proc>>
             /\ \A e \in providers :
                   e.key # StopKey(ver) => e \in providers' /\ proc'[e.val] = proc[e.val]]_vars

\* C15: a StopProvider with an empty version stopped the session the alias
\* names while another session stays registered and running
C15_Witness ==
    /\ lastOp.op = "StopProvider" /\ lastOp.ver = <<>> /\ lastOp.found
    /\ proc[lastOp.sess].state = "killed"
    /\ lastOp.sess \notin Registered
    /\ \E s \in Registered : proc[s].state = "running"

\* C16: Client.Close closes every registered session, returns the error of
\* the last Close that failed (provider.Close returns none, so nil), and
\* leaves the providers map and the latest-alias map empty
C16_CloseAll ==
    [][\A order \in Orders(providers) :
          ClientClose(order) =>
             /\ \A e \in providers : proc'[e.val].state = "killed"
             /\ \A i \in DOMAIN proc : i \notin Registered => proc'[i] = proc[i]
             /\ lastOp'.err = ""
             /\ providers' = {}
             /\ latestKeys' = {}]_vars

Closed == {i \in DOMAIN proc : proc[i].state = "killed" /\ ~proc[i].schema.null}

\* C16: Client.Close closed two registered sessions, one of them under the
\* latest alias
C16_Witness ==
    /\ lastOp.op = "Close" /\ lastOp.found
    /\ Cardinality(Closed) >= 2
    /\ providers = {} /\ latestKeys = {}
    /\ \E k \in ClientCalls : ClientOk(k) /\ ccall[k].cfg.Version = <<>>

\* C17: the child of a session is never killed while a Configure or
\* ReadDataSource RPC on that session is in flight
C17_NoKillDuringRPC ==
    [][\A s \in Sessions :
          s \in DOMAIN proc /\ proc[s].state # "killed" /\ proc'[s].state = "killed" =>
             InFlight(s) = {}]_vars

SucceededCalls == {j \in SessionCalls : scall[j].pc = "done" /\ scall[j].err = ""}

\* C18: the schema of a session, once set, is never cleared or replaced,
\* configured never goes back to false, and no Configure or ReadDataSource
\* of a session succeeds once the session has been closed
C18_LifecycleForward ==
    /\ [][\A s \in DOMAIN proc :
             /\ ~proc[s].schema.null => proc'[s].schema = proc[s].schema
             /\ proc[s].configured => proc'[s].configured]_vars
    /\ [](\A j \in SucceededCalls : ~scall[j].closedBefore)

\* C19: provider.Close returns no error whatever the state of the child, a
\* Close of a session that is closed already changes nothing, and closing
\* twice leaves what closing once leaves
C19_CloseIdempotent ==
    /\ [](\A s \in DOMAIN proc :
             /\ providerClose(proc[s]).err = ""
             /\ providerClose(proc[s]).p.state = "killed"
             /\ providerClose(providerClose(proc[s]).p) = providerClose(proc[s]))
    /\ [][\A s \in Sessions :
             SessionClose(s) =>
                /\ lastOp'.err = ""
                /\ proc[s].state = "killed" => proc' = proc]_vars

\* C19: a session whose child had died on its own was closed, and closed again
C19_Witness ==
    /\ lastOp.op = "provider.Close" /\ lastOp.again /\ lastOp.err = ""
    /\ proc[lastOp.sess].state = "killed"
    /\ proc[lastOp.sess].died

UnknownReads ==
    {j \in SessionCalls : /\ scall[j].op = "ReadDataSource"
                          /\ scall[j].typeName \notin ProviderSchema.DataSourceSchemas}

\* C20: a ReadDataSource of a type name the schema does not list fails with
\* DataSourceNotFound carrying the type name and the namespace and name of
\* the session, sends no RPC and leaves the session as it was
C20_UnknownDataSource ==
    /\ [](\A j \in UnknownReads :
             /\ scall[j].pc = "done"
             /\ scall[j].err = "ErrDataSourceNotFound"
             /\ scall[j].TypeName = scall[j].typeName
             /\ scall[j].Namespace = <<"x">> /\ scall[j].Name = <<"y">>
             /\ ~scall[j].sent)
    /\ [][\A j \in SessionCalls :
             scall[j].pc = "idle" /\ j \in UnknownReads' =>
                UNCHANGED <<proc, providers, latestKeys>>]_vars

\* C20: a read of "nope" failed and a later read of "ds" on the same running
\* session went through
C20_Witness ==
    /\ 1 \in UnknownReads /\ scall[1].err = "ErrDataSourceNotFound"
    /\ scall[2].op = "ReadDataSource" /\ scall[2].typeName = "ds"
    /\ scall[2].sess = scall[1].sess
    /\ scall[2].pc = "done" /\ scall[2].err = ""

FailedCalls == {j \in SessionCalls : scall[j].pc = "done" /\ scall[j].err # ""}

\* C21: a step in which a Configure or ReadDataSource fails (codec error, RPC
\* error, error diagnostic) kills no child, takes no session out of the
\* providers map and changes no schema and no configured flag
C21_FailureLeavesSession ==
    [][\A j \in SessionCalls :
          j \notin FailedCalls /\ j \in FailedCalls' =>
             UNCHANGED <<proc, providers, latestKeys>>]_vars

\* C21: a Configure failed on an error diagnostic and a ReadDataSource on an
\* RPC error, and their session is still registered, running and has its schema
C21_Witness ==
    \E j1, j2 \in FailedCalls :
       /\ scall[j1].err = "configure provider error"
       /\ scall[j2].err = "failed to read data source"
       /\ scall[j1].sess = scall[j2].sess
       /\ scall[j1].sess \in Registered
       /\ proc[scall[j1].sess].state = "running"
       /\ ~proc[scall[j1].sess].schema.null

RECURSIVE OutOfRange(_)
\* the run of digits does not fit an int
OutOfRange(part) ==
    IF part = <<>> THEN FALSE
    ELSE \/ OutOfRange(SubSeq(part, 1, Len(part) - 1))
         \/ DecimalValue(SubSeq(part, 1, Len(part) - 1)) >
               (MaxInt - DigitVal(part[Len(part)])) \div 10

RECURSIVE PartsOf(_, _, _)
\* the n-th dot-separated part of v (<<>> when there are fewer), cur being
\* the part read so far
PartsOf(v, n, cur) ==
    IF v = <<>> THEN (IF n = 1 THEN cur ELSE <<>>)
    ELSE IF Head(v) = "." THEN (IF n = 1 THEN cur ELSE PartsOf(Tail(v), n - 1, <<>>))
    ELSE PartsOf(Tail(v), n, Append(cur, Head(v)))

\* the (major, minor, patch) of a version as the spec words it: leading v
\* stripped, everything from the first '-' or '+' dropped, a part that does
\* not parse as an int counted as 0
SpecTriple(v) ==
    LET noV == IF v # <<>> /\ v[1] = "v" THEN SubSeq(v, 2, Len(v)) ELSE v
        cuts == {i \in 1..Len(noV) : noV[i] \in {"-", "+"}}
        core == IF cuts = {} THEN noV
                ELSE SubSeq(noV, 1, (CHOOSE i \in cuts : \A j \in cuts : i <= j) - 1)
        Num(part) == IF /\ part # <<>>
                        /\ \A i \in 1..Len(part) : IsDigit(part[i])
                        /\ ~OutOfRange(part)
                     THEN DecimalValue(part) ELSE 0
    IN  <<Num(PartsOf(core, 1, <<>>)), Num(PartsOf(core, 2, <<>>)), Num(PartsOf(core, 3, <<>>))>>

TripleLeq(x, y) ==
    \/ x[1] < y[1]
    \/ x[1] = y[1] /\ x[2] < y[2]
    \/ x[1] = y[1] /\ x[2] = y[2] /\ x[3] <= y[3]

\* C22: GetLatestVersion fails with "no versions found" on an empty list and
\* otherwise returns a version of the list whose (major, minor, patch) is
\* the largest of the list; on the list of the example it returns "1.0.0"
C22_LatestVersion ==
    lastOp.op = "GetLatestVersion" =>
       IF versions = <<>> THEN lastOp.err = "no versions found"
       ELSE /\ lastOp.err = ""
            /\ \E i \in 1..Len(versions) : versions[i] = lastOp.ver
            /\ \A i \in 1..Len(versions) :
                  TripleLeq(SpecTriple(versions[i]), SpecTriple(lastOp.ver))
            /\ versions = ExampleVersions => lastOp.ver = V100

\* CreateProvider calls that returned an error
FailedCreates == {k \in ClientCalls : ccall[k].pc = "done" /\ ccall[k].err # ""}

\* C23: when the registry answers 404 to the download-info request,
\* CreateProvider returns the typed VersionNotFound error carrying the
\* namespace, name and version asked for
C23_VersionNotFound ==
    \A k \in FailedCreates :
       ccall[k].cause = downloadFn("notFound").err => ccall[k].err = "VersionNotFound"

C25_CachedNeedsNoRegistry ==
    \A k \in ClientCalls :
       ccall[k].cached /\ ccall[k].cfg.Version # <<>> =>
          /\ ccall[k].registry = {}
          /\ \A s \in StartedBy(k) : proc[s].path = ccall[k].execPath
          /\ \E k2 \in ClientCalls \ {k} :
                ccall[k2].published /\ ccall[k2].execPath = ccall[k].execPath

C25_Witness ==
    \E k \in ClientCalls :
       /\ ccall[k].cached /\ ccall[k].cfg.Version # <<>>
       /\ ccall[k].pc = "done" /\ ccall[k].err = ""
       /\ StartedBy(k) # {}

\* GetOrPut calls that have returned
ReturnedGetOrPut == {c \in Calls : call[c].op = "GetOrPut" /\ call[c].pc = "done"}

\* C26: a GetOrPut whose context was cancelled, during the wait for the
\* lock or with the lock held, returns with the lock released and with no
\* staging directory of its own left in .tmp; a call cancelled during the
\* wait has not invoked produce
C26_CancelReleases ==
    \A c \in ReturnedGetOrPut :
       call[c].cancelled =>
          /\ \A h \in held : h[2] # c
          /\ ~call[c].residue
          /\ call[c].err = "lock" => ~call[c].produced /\ ~call[c].touched

C26_Witness ==
    \E c1, c2 \in ReturnedGetOrPut :
       /\ call[c1].cancelled /\ call[c1].err = "lock"
       /\ call[c2].cancelled /\ call[c2].produced /\ call[c2].err # ""

\* C27: whenever produce handed a cleanup back to GetOrPut, the cleanup has
\* run exactly once by the time GetOrPut returns, whatever the exit path
C27_CleanupOnce ==
    \A c \in ReturnedGetOrPut : call[c].handed => call[c].cleaned = 1

\* GetOrPut calls whose process died holding the lock
Crashed == {c \in Calls : call[c].pc = "crashed"}

\* the canonical directory of id as a complete publication of archive a
\* leaves it
Published(id, a) == Under(GetOrPut({}, id, a).fs, providerDir(id))

\* C28: once a process has died holding the lock inside GetOrPut(id), it
\* holds no lock and the canonical directory of id is absent or holds a
\* complete publication; and every GetOrPut(id) of a live process with a
\* working producer eventually returns successfully
C28_CrashRecovery ==
    /\ [](Crashed # {} =>
            /\ \A h \in held : h[2] \notin Crashed
            /\ \/ Under(fs, providerDir(AnyId)) = {}
               \/ \E a \in {"A1", "A2"} : Under(fs, providerDir(AnyId)) = Published(AnyId, a))
    /\ \A c \in Calls :
          (Crashed # {} /\ call[c].pc \in {"g_acquire", "g_wait"})
             ~> (c \in Crashed \/ (call[c].pc = "done" /\ call[c].err = ""
                                    /\ IsExecutable(fs, call[c].ret)))

C28_Witness ==
    \E c1 \in Crashed, c2 \in Calls :
       /\ call[c1].tmp # <<>> /\ Exists(fs, call[c1].tmp)
       /\ call[c2].pc = "done" /\ call[c2].err = ""
       /\ call[c2].waited /\ call[c2].produced

\* the diagnostics hold an entry of severity ERROR
HasError(diags) == \E i \in 1..Len(diags) : diags[i].Severity = "ERROR"

\* "<summary>: <detail>" of the first entry of severity ERROR
FirstErrorText(diags) ==
    LET i == CHOOSE n \in 1..Len(diags) :
                /\ diags[n].Severity = "ERROR"
                /\ \A m \in 1..(n - 1) : diags[m].Severity # "ERROR"
    IN  diags[i].Summary \o ": " \o diags[i].Detail

\* the responses that came back from the provider
Answers == {resp \in Responses : ~resp.rpcErr}

\* C29 as stated: for every response of GetProviderSchema, ConfigureProvider
\* and ReadDataSource the call fails if and only if the diagnostics hold an
\* entry of severity ERROR
C29_FailsIffErrorDiagnostic ==
    [][\A resp \in Answers :
          /\ \A k \in ClientCalls :
                Schema(k, resp) => ((ccall'[k].err # "") <=> HasError(resp.diags))
          /\ \A j \in SessionCalls :
                ConfigureReply(j, resp) =>
                   ((scall'[j].pc = "done" /\ scall'[j].err # "") <=> HasError(resp.diags))
          /\ \A j \in SessionCalls, decodes \in BOOLEAN :
                ReadDataSourceReply(j, resp, decodes) =>
                   ((scall'[j].err # "") <=> HasError(resp.diags))]_vars

\* C29, amended: a response with an entry of severity ERROR fails the call
\* with an error that wraps "<summary>: <detail>" of the first such entry;
\* a response without one (warnings only, or no diagnostics) passes the
\* check: GetProviderSchema and Configure then succeed, and ReadDataSource
\* succeeds unless the state of the response does not decode
C29_DiagnosticsDecide ==
    [][\A resp \in Answers :
          /\ \A k \in ClientCalls :
                Schema(k, resp) =>
                   IF HasError(resp.diags)
                   THEN /\ ccall'[k].err = "SchemaFailed"
                        /\ ccall'[k].cause =
                              "provider schema error: " \o FirstErrorText(resp.diags)
                   ELSE ccall'[k].err = "" /\ ccall'[k].ret # 0
          /\ \A j \in SessionCalls :
                ConfigureReply(j, resp) =>
                   IF HasError(resp.diags)
                   THEN /\ scall'[j].pc = "done"
                        /\ scall'[j].err = "configure provider error"
                        /\ scall'[j].wrapped = FirstErrorText(resp.diags)
                   ELSE scall'[j].pc = "s_set" /\ scall'[j].err = ""
          /\ \A j \in SessionCalls, decodes \in BOOLEAN :
                ReadDataSourceReply(j, resp, decodes) =>
                   IF HasError(resp.diags)
                   THEN /\ scall'[j].err = "read data source error"
                        /\ scall'[j].wrapped = FirstErrorText(resp.diags)
                   ELSE scall'[j].err = IF decodes THEN "" ELSE "failed to decode state"]_vars

C29_Witness ==
    \E j1, j2 \in SessionCalls :
       /\ scall[j1].op = "Configure" /\ scall[j1].pc = "done"
       /\ scall[j1].err = "configure provider error"
       /\ scall[j1].wrapped = "denied: no token"
       /\ scall[j2].op = "ReadDataSource" /\ scall[j2].pc = "done" /\ scall[j2].err = ""

\* a value of a mapping with what the claim lets differ removed: a key that
\* is absent and a key that holds nil are the same, and a number is its
\* numeric value, whichever Go type holds it
NormalValue(g) ==
    IF g.kind \in {"absent", "nil"} THEN GoNil
    ELSE IF g.kind \in {"int", "float64"} THEN GoValue("number", g.digits, "", <<>>)
    ELSE g

Normal(m) ==
    IF m.null THEN NilMap
    ELSE [null |-> FALSE, n |-> NormalValue(m.n), s |-> NormalValue(m.s),
          l |-> NormalValue(m.l)]

\* C30: a mapping that conforms to the block type, encoded to msgpack and
\* decoded back to a mapping, is the mapping it was up to null/empty
\* normalization; a nil mapping is encoded as the null value of the type,
\* and the null value is decoded to a nil mapping
C30_CodecRoundTrip ==
    lastOp.op = "roundTrip" =>
       /\ Normal(lastOp.out) = Normal(lastOp.arg)
       /\ lastOp.arg.null => lastOp.wire = <<"nil">> /\ lastOp.out.null

Staging(c) == call[c].pc \in {"g_extract", "g_find", "g_mkparent", "g_rename"}

Complete(f, p) == IsExecutable(f, p) /\ NodeAt(f, p).data # "partial"

\* C33: a Get(id) or Has(id) issued without the lock while a GetOrPut(id) is
\* running answers empty/false or the path of a completely extracted file
\* whose execute permission is set.
C33_ReadersSeeWholeFiles ==
    [][/\ GetCall(AnyId) =>
             obs'[AnyId].last = <<>> \/ Complete(fs, obs'[AnyId].last)
       /\ HasCall(AnyId) /\ obs'[AnyId].has => Complete(fs, Get(fs, AnyId))]_vars

\* a Get and a Has have answered the published path, and the GetOrPut that
\* was running when they did has staged its own files since
C33_Witness ==
    /\ obs[AnyId].last # <<>> /\ obs[AnyId].has
    /\ \E c \in Calls : Running(c, AnyId) /\ call[c].pc = "g_check" /\ call[c].waited
    /\ \E c \in Calls : Ok(c) /\ call[c].produced /\ call[c].ret = obs[AnyId].last

\* C34: each entry of the latest-alias map refers to a key that is present
\* in the providers map.
C34_AliasesRegistered ==
    \A e \in latestKeys : MapHas(providers, e.val)

\* C35: a CreateProvider call that returns an error leaves the providers map
\* and the latest-alias map as they were, and every registered session
\* running: no step a call takes under the mutex changes them, unless it is
\* the step that returns success.
C35_FailedCreateFrame ==
    [][\A k \in ClientCalls :
          mu = k /\ ~(ccall'[k].pc = "done" /\ ccall'[k].err = "") =>
             /\ providers' = providers
             /\ latestKeys' = latestKeys
             /\ \A s \in Registered :
                   proc[s].state = "running" => proc'[s].state = "running"]_vars

\* a call has failed on its schema, after launching a child of its own,
\* while another call's session is registered under an alias and running
C35_Witness ==
    \E k \in ClientCalls :
       /\ ccall[k].pc = "done" /\ ccall[k].err = "SchemaFailed"
       /\ \E s \in Registered : proc[s].state = "running" /\ s # ccall[k].sess
       /\ latestKeys # {}

\* C36: whenever Get(id) is empty and produce returns a well-formed archive
\* containing a matching executable, GetOrPut(id, produce) succeeds and
\* publishes, whatever earlier failed calls left in the canonical directory
\* (no filesystem fault is injected).
C36_PublishesOverResidue ==
    \A c \in GetOrPutCalls :
        (Done(c) /\ call[c].produced /\ ~call[c].hitAtProduce
           /\ call[c].arch \in {"A1", "A2"} /\ faults = 0)
            => Ok(c) /\ call[c].getAfter = call[c].ret /\ call[c].execAfter

\* a call that has started and not returned
Pending ==
    \/ \E k \in ClientCalls : ccall[k].pc \notin {"idle", "done"}
    \/ \E c \in Calls : call[c].pc \notin {"idle", "done"}

\* C37: the Client mutex is held whenever a CreateProvider call goes for the
\* file lock, the holder of a file lock waits for nothing, and session Close
\* takes neither lock; so some pending call can always step, and every call
\* that has started returns.
C37_NoDeadlock ==
    /\ [](\A k \in ClientCalls :
             ccall[k].pc \in {"c_resolve", "c_fetch", "c_launch", "c_schema"} => mu = k)
    /\ [](\A c \in Calls : InCritical(c) => Runnable(c))
    /\ [](Pending => \/ \E k \in ClientCalls : RunnableCreate(k)
                     \/ \E c \in Calls : Runnable(c))
    /\ [][\A s \in Sessions : SessionClose(s) => mu' = mu /\ held' = held]_vars
    /\ \A k \in ClientCalls : (ccall[k].pc # "idle") ~> (ccall[k].pc = "done")
    /\ \A c \in Calls : (call[c].pc # "idle") ~> (call[c].pc = "done")

\* a CreateProvider call holds the mutex and waits at the file lock, which a
\* GetOrPut of another process holds, while a second CreateProvider call
\* waits for the mutex
C37_Witness ==
    \E k1, k2 \in ClientCalls, c \in Calls :
       /\ ccall[k1].pc = "c_fetch" /\ mu = k1
       /\ ccall[k2].pc = "c_lock"
       /\ InCritical(c) /\ call[c].id = ProviderIdentifier(ccall[k1].version)

\* a session of the key was registered once and StopProvider or Close has
\* closed it and taken it out of the providers map
Deregistered(key) ==
    /\ ~Existing(key)
    /\ \E s \in DOMAIN proc :
          proc[s].key = key /\ proc[s].state = "killed" /\ ~proc[s].schema.null

\* C38: after StopProvider or Close has deregistered the session of a key,
\* the next CreateProvider for the key does not return the old session: it
\* goes to the cache, which answers without calling the producer while the
\* entry exists, launches a new child, and on success registers and returns
\* the new session, running and with configured = false.
C38_RestartAfterStop ==
    [][\A k \in ClientCalls :
          LET key == ccall'[k].key
              id == ProviderIdentifier(ccall'[k].version)
          IN  Deregistered(key) =>
                /\ ccall[k].pc = "c_resolve" /\ ccall'[k].pc # "c_resolve" =>
                      ccall'[k].pc = "c_fetch"
                /\ (/\ ccall[k].pc = "c_fetch" /\ ccall'[k].pc # "c_fetch"
                    /\ findProviderExecutable(fs, providerDir(id), id.Name) # <<>>) =>
                      ccall'[k].pc = "c_launch" /\ ccall'[k].cached
                /\ ccall[k].pc = "c_launch" /\ ccall'[k].pc = "c_schema" =>
                      /\ Len(proc') = Len(proc) + 1
                      /\ ccall'[k].sess = Len(proc')
                      /\ proc'[Len(proc')].state = "running"
                      /\ ~proc'[Len(proc')].configured
                /\ ccall[k].pc = "c_schema" /\ ccall'[k].pc = "done" /\ ccall'[k].err = "" =>
                      /\ ccall'[k].ret = ccall[k].sess
                      /\ ccall[k].launched /\ ccall[k].cached
                      /\ proc'[ccall'[k].ret].state = "running"
                      /\ ~proc'[ccall'[k].ret].configured
                      /\ MapGet(providers', key) = ccall'[k].ret]_vars

\* a session was configured and then deregistered, and a later CreateProvider
\* for the same key has returned another session, launched by that call from
\* the cached executable and not configured
C38_Witness ==
    \E k \in ClientCalls, old \in DOMAIN proc :
       /\ ClientOk(k) /\ ccall[k].launched /\ ccall[k].cached
       /\ old < ccall[k].ret
       /\ proc[old].key = ccall[k].key
       /\ proc[old].state = "killed" /\ proc[old].configured
       /\ proc[ccall[k].ret].state = "running" /\ ~proc[ccall[k].ret].configured
       /\ lastOp.op \in {"StopProvider", "Close"} /\ lastOp.sess \in {0, old}

\* the Configure calls on session s that have returned success
ConfiguredBy(s) ==
    {j \in SessionCalls : /\ scall[j].op = "Configure" /\ scall[j].sess = s
                          /\ scall[j].pc = "done" /\ scall[j].err = ""}

\* C39: a session's configured flag is true only if a Configure call on that
\* session has returned success, and no step of a Configure call other than
\* its successful return changes the flag of any session: a call that fails
\* at any step leaves it as it was.
C39_ConfiguredOnlyBySuccess ==
    /\ [](\A s \in DOMAIN proc : proc[s].configured => ConfiguredBy(s) # {})
    /\ [][\A j \in SessionCalls :
             (/\ scall'[j] # scall[j] /\ scall'[j].op = "Configure"
              /\ ~(scall'[j].pc = "done" /\ scall'[j].err = "")) =>
                \A s \in DOMAIN proc : proc'[s].configured = proc[s].configured]_vars

\* a Configure on a session has returned success and another Configure on
\* the same session has failed on an error diagnostic, the flag being true
C39_Witness ==
    \E s \in DOMAIN proc, j1, j2 \in SessionCalls :
       /\ j1 \in ConfiguredBy(s) /\ proc[s].configured
       /\ scall[j2].op = "Configure" /\ scall[j2].pc = "done" /\ scall[j2].sess = s
       /\ scall[j2].err = "configure provider error"

====
